---- MODULE Spec2Model ----
(***************************************************************************)
(* A model of pyTara_V's request layer and pipeline orchestrator.          *)
(*                                                                         *)
(*   Spec        one BaseAIAssistant/DeepSeekAIAssistant object serving    *)
(*               the calls of analyze_asset_async one after the other:     *)
(*               the check of the arguments, token acquisition, the outer  *)
(*               retry loop of base_ai.py and the inner retry loop of      *)
(*               deepseek_ai.py.                                           *)
(*   SpecBucket  one token bucket shared by several cooperative callers of *)
(*               _acquire_token_async.                                     *)
(*   SpecBucketFair  SpecBucket with the clock advancing and the event    *)
(*               loop resuming the tasks whose sleep is over.              *)
(*   SpecAnalyzers  concurrent stage requests, each through the assistant   *)
(*               its TARAAnalyzer builds for it.                           *)
(*   SpecFlow    exec_tara_analysis_workflow_async: the tree of branch     *)
(*               tasks under the two semaphores, with the synchronous      *)
(*               workflow computed on the same service outcomes.           *)
(*   SpecFlowFair  SpecFlow with lists of at most MaxList entries and     *)
(*               the event loop running every step that stays ready.       *)
(*   SpecStage   one stage function: _validate_response_format on a parsed *)
(*               response, then the loop that builds the child artifacts.  *)
(*   SpecValidate  SpecStage with _validate_response_format called again  *)
(*               on the same and on other responses.                       *)
(*   SpecLock    the callers of _acquire_token_async under asyncio.Lock.   *)
(*   SpecThreads the callers of _acquire_token, one thread each.           *)
(*   SpecLoop    the one thread of the event loop: the awaits of the       *)
(*               branch tasks and the blocking summarization call.         *)
(*   SpecHeap    the objects behind the artifacts: copy.deepcopy at the    *)
(*               fan-out stages and the stages that set attributes.        *)
(*   SpecObjs    the stages that parse a response into the enums and the   *)
(*               scores of the tara_objs classes, with strings as Python   *)
(*               compares them.                                            *)
(*                                                                         *)
(* Time is counted in whole seconds.  Tokens are counted in 1/TokenScale   *)
(* of a token, so that rate_limit_per_minute / 60.0 tokens per second is   *)
(* an integer number of units per second.                                  *)
(***************************************************************************)
EXTENDS Integers, Sequences, FiniteSets, TLC

(* ------------------------------ bounds -------------------------------- *)
\* max_retries is drawn from 0..MaxRetriesBound
MaxRetriesBound == 3
\* the clock stops at MaxTime
MaxTime == 10
\* SpecBucket: the number of cooperative callers sharing the bucket
NumTasks == 2
\* SpecBucket: required_tokens is drawn from 1..MaxRequired
MaxRequired == 2
\* SpecFlow: the number of assets read from the asset file
NumAssets == 2
\* SpecFlow: a list of attack paths holds 0..MaxFan entries
MaxFan == 2
\* SpecFlow: a list of attributes, damage scenarios or threat scenarios holds
\* 0..MaxList entries
MaxList == 1
\* SpecFlow: at most MaxWide lists of a run hold more than one entry
MaxWide == 1
\* SpecHeap: a fan-out list holds at most HeapFan entries, and at most
\* HeapWide lists of a run hold more than one
HeapFan == 2
HeapWide == 1
\* SpecObjs: a first-stage response scores 1..MaxAttributes attributes
MaxAttributes == 3
\* SpecLoop: a request is sent again at most LoopRetries times
LoopRetries == 1
\* SpecAnalyzers: the requests of a run are counted up to MaxAdmitted
MaxAdmitted == 12
\* SpecFlow: each semaphore is created with 1..MaxPermits permits
MaxPermits == 2
\* SpecValidate: _validate_response_format is called up to MaxValidations times
MaxValidations == 3

(* -------------------------- program constants ------------------------- *)
rate_limit_per_minute == 20
max_burst == 10
TokenScale == 60
TimeoutCeiling == 120
MaxDelay == 30
\* process_threat_scenario_async: max_retries = 2
ScenarioMaxRetries == 2
\* configured base timeouts: 60 is the default; 40 and 150 are other configurations
BaseTimeouts == {40, 60, 150}

VARIABLES
    max_retries,        \* self.max_retries
    timeout,            \* self.timeout
    tokens,             \* self.tokens, in 1/TokenScale token
    last_refill_time,   \* self.last_refill_time
    now,                \* time.time()
    pc,                 \* where the logical request is
    retry_count,        \* request_ai_response_async: retry_count
    attempt,            \* _send_request_async: attempt
    current_timeout,    \* _send_request_async: current_timeout
    obs,                \* what the current logical request has done so far
    acq,                \* SpecBucket: each caller of _acquire_token_async
    bobs,               \* SpecBucket: what the shared bucket has done so far
    max_concurrent_assets,      \* SpecFlow: parameter of the workflow
    max_concurrent_attributes,  \* SpecFlow: parameter of the workflow
    asset_semaphore,    \* SpecFlow: free permits of asset_semaphore
    attribute_semaphore,\* SpecFlow: free permits of attribute_semaphore
    task,               \* SpecFlow: the coroutines of the run, by tree position
    wide,               \* SpecFlow: lists with more than one entry so far
    run_pc,             \* SpecFlow: where exec_tara_analysis_workflow_async is
    asset_tara_info_list, \* SpecFlow: the collection written by the run
    exit_status,        \* SpecFlow: the exit status of the process, -1 while it runs
    format_json,        \* SpecStage: json.loads(format_text)
    response_json,      \* SpecStage: the parsed response of the service
    artifact,           \* SpecStage: the AssetTaraInfo the stage function is called with
    validated,          \* SpecStage: what _validate_response_format returned
    stage_pc,           \* SpecStage: where the stage function is
    validations,        \* SpecStage: the calls of _validate_response_format so far
    children,           \* SpecStage: the list the stage function returned
    heap                \* SpecHeap: the objects of the artifacts, by address

clientVars == <<max_retries, timeout, pc, retry_count, attempt, current_timeout, obs>>
bucketVars == <<tokens, last_refill_time>>
callerVars == <<acq, bobs>>
flowVars == <<max_concurrent_assets, max_concurrent_attributes, asset_semaphore,
              attribute_semaphore, task, wide, run_pc, asset_tara_info_list,
              exit_status>>
stageVars == <<format_json, response_json, artifact, validated, stage_pc, validations,
              children, heap>>
vars == <<max_retries, timeout, tokens, last_refill_time, now, pc, retry_count,
          attempt, current_timeout, obs, acq, bobs, max_concurrent_assets,
          max_concurrent_attributes, asset_semaphore, attribute_semaphore, task,
          wide, run_pc, asset_tara_info_list, exit_status, format_json,
          response_json, artifact, validated, stage_pc, validations, children,
          heap>>

(* ------------------------------ helpers ------------------------------- *)
Min(a, b) == IF a <= b THEN a ELSE b

RECURSIVE Pow2(_)
Pow2(n) == IF n <= 0 THEN 1 ELSE 2 * Pow2(n - 1)

(* --------------------------- the token bucket ------------------------- *)
\* units of token added per second: rate_limit_per_minute / 60.0 tokens
token_refill_rate == (rate_limit_per_minute * TokenScale) \div 60

Capacity == max_burst * TokenScale

\* RefillTokens with the cap at max_burst forgotten
RefillTokensNoCap(tk, last, t) ==
    LET elapsed == t - last
        new_tokens == elapsed * token_refill_rate
    IN  IF new_tokens > 0
        THEN [tokens |-> tk + new_tokens, last_refill_time |-> t]
        ELSE [tokens |-> tk, last_refill_time |-> last]

\* _refill_tokens / _refill_tokens_async at clock value t on bucket <<tk, last>>
RefillTokens(tk, last, t) ==
    LET elapsed == t - last
        new_tokens == elapsed * token_refill_rate
    IN  IF new_tokens > 0
        THEN [tokens |-> Min(Capacity, tk + new_tokens), last_refill_time |-> t]
        ELSE [tokens |-> tk, last_refill_time |-> last]

\* wait_time = (required_tokens - self.tokens) / self.token_refill_rate, in
\* whole seconds (the sleep lasts at least that long)
WaitTime(tk, required_tokens) ==
    ((required_tokens * TokenScale - tk) + token_refill_rate - 1) \div token_refill_rate

(* ----------------------- the parsed responses -------------------------- *)
(* A JSON value is a record [t, s, items, f, keys]: t is its type, s the   *)
(* characters of a string, items the entries of a list, f the members of   *)
(* an object and keys the order in which json.loads met them, which is the *)
(* order a dict iterates in.  The keys of the entries are one character    *)
(* long ("a" and "b" stand for damage_scenario_1 and damage_scenario_2,    *)
(* threat_scenario_1 and so on).                                           *)
\* a list of a response holds at most MaxItems entries
MaxItems == 2

Fields == {"a", "b"}

Str(cs) == [t |-> "str", s |-> cs, items |-> <<>>, f |-> <<>>, keys |-> <<>>]
Number == [t |-> "num", s |-> <<>>, items |-> <<>>, f |-> <<>>, keys |-> <<>>]
List(xs) == [t |-> "list", s |-> <<>>, items |-> xs, f |-> <<>>, keys |-> <<>>]
Object(ks, d) == [t |-> "dict", s |-> <<>>, items |-> <<>>, f |-> d, keys |-> ks]

\* the orders in which the keys of D can stand in a JSON object
Orders(D) ==
    {ks \in [1..Cardinality(D) -> D] : \A i, j \in DOMAIN ks : i # j => ks[i] # ks[j]}

\* the JSON objects with the keys of D and members from vals
Objects(D, vals) == {Object(ks, d) : ks \in Orders(D), d \in [D -> vals]}

\* str.strip(): the string without its leading and trailing whitespace
RECURSIVE LStrip(_), RStrip(_)
LStrip(cs) == IF cs # <<>> /\ Head(cs) = " " THEN LStrip(Tail(cs)) ELSE cs
RStrip(cs) ==
    IF cs # <<>> /\ cs[Len(cs)] = " " THEN RStrip(SubSeq(cs, 1, Len(cs) - 1)) ELSE cs
Strip(cs) == RStrip(LStrip(cs))

\* the string values tried: empty, blank, plain, and padded with blanks
Strings == {<<>>, <<" ">>, <<"a">>, <<" ", "a", " ">>}

\* the values of the members of an entry
Leaves == {Str(cs) : cs \in Strings} \cup {Number}

\* the entries of a list: objects over the keys of Fields, or a bare string
Entries ==
    UNION {Objects(D, Leaves) : D \in SUBSET Fields} \cup {Str(<<"a">>)}

\* the values a response may hold under a top-level key
ValuesUpTo(m) ==
    {List(xs) : xs \in UNION {[1..n -> Entries] : n \in 0..m}}
        \cup UNION {Objects(D, {Str(<<"a">>)}) : D \in SUBSET Fields}
        \cup {Str(<<>>), Str(<<"a">>), Number}

Values == ValuesUpTo(MaxItems)

\* the keys of format_text whose value is checked entry by entry
ListKeys == {"possible_damage_scenario_list", "possible_threat_scenario_list",
             "possible_attack_path_list", "asset_cybersecurity_requirement_list"}

\* json.loads(format_text) of the three fan-out stages, of the impact level
\* stage and of the risk treatment stage, and a format_text whose list is
\* under a key that is not one of ListKeys
Templates ==
    {[k \in {key} |-> List(<<Object(<<"a">>, [x \in {"a"} |-> Str(<<"a">>)])>>)] :
         key \in {"possible_damage_scenario_list", "possible_threat_scenario_list",
                  "possible_attack_path_list", "list_key"}}
        \cup {[k \in {"possible_damage_scenario_impact_level"} |->
                   Object(<<"a", "b">>, [x \in Fields |-> Str(<<"a">>)])]}
        \cup {[k \in {"risk_treatment"} |-> Str(<<"a">>)]}

\* the responses to a request sent with format_text: objects with the key of
\* the format or without it
ResponsesUpTo(fmt, m) ==
    {<<>>} \cup {[k \in DOMAIN fmt |-> v] : v \in ValuesUpTo(m)}

Responses(fmt) == ResponsesUpTo(fmt, MaxItems)

\* "sub_key not in response_json[key]" is False: membership in an object, in
\* a list or in a string; a number raises TypeError
Contains(v, sub_key) ==
    CASE v.t = "dict" -> sub_key \in DOMAIN v.f
      [] v.t = "list" -> \E i \in 1..Len(v.items) :
                             v.items[i].t = "str" /\ v.items[i].s = <<sub_key>>
      [] v.t = "str"  -> \E i \in 1..Len(v.s) : v.s[i] = sub_key
      [] OTHER        -> FALSE

\* the loop over item.items(): item.items raises AttributeError unless item
\* is an object, sub_content.strip raises it unless sub_content is a string
ItemPasses(item) ==
    /\ item.t = "dict"
    /\ \A k \in DOMAIN item.f : item.f[k].t = "str" /\ Strip(item.f[k].s) # <<>>

\* one round of "for key, format_value in format_json.items()" does not
\* return False and raises nothing
KeyPasses(key, format_value, resp) ==
    IF key \in ListKeys
    THEN /\ key \in DOMAIN resp
         /\ resp[key].t = "list"
         /\ resp[key].items # <<>>
         /\ \A i \in 1..Len(resp[key].items) : ItemPasses(resp[key].items[i])
    ELSE IF format_value.t = "dict"
    THEN /\ key \in DOMAIN resp
         /\ resp[key].t # "num"
         /\ \A sub_key \in DOMAIN format_value.f : Contains(resp[key], sub_key)
    ELSE key \in DOMAIN resp

\* a validator that keeps what it has returned before and accepts a pair
\* only the first time it sees it
ValidateOnce(resp, fmt) ==
    validated = "none" /\ \A key \in DOMAIN fmt : KeyPasses(key, fmt[key], resp)

\* _validate_response_format(response_json, format_text): True, or False
\* where the code returns False or catches an exception
ValidateResponseFormat(resp, fmt) ==
    \A key \in DOMAIN fmt : KeyPasses(key, fmt[key], resp)

(* ------------------------- the retry arithmetic ----------------------- *)
\* current_timeout = min(current_timeout * 1.5, 120); exact for the even
\* values the model reaches below the ceiling
GrowTimeout(ct) == Min((ct * 3) \div 2, TimeoutCeiling)

\* delay = min(2 ** (retry_count - 1), 30), retry_count already incremented
OuterDelay(rc) == Min(Pow2(rc - 1), MaxDelay)

\* wait_time = 2**attempt
InnerWait(a) == Pow2(a)

\* what one HTTP send can end in: an answer with status 200, whose parsed
\* response is well formed ("ok"), is a list with no entry ("empty") or is
\* otherwise a dictionary not of the format ("invalid"), or whose content
\* json.loads parses into a list, a string or a number ("notdict"), or a
\* failure of the transmission
Outcomes == {"ok", "invalid", "empty", "notdict", "timeout", "transport", "http400",
             "http429", "http500"}

\* isinstance(parsed_response, dict) for the answers with status 200
IsDict(o) == o \in {"ok", "invalid", "empty"}

\* the format_text of get_possible_threat_scenario_info_async and an answer
\* to it whose list has no entry
ThreatScenarioFormat ==
    [k \in {"possible_threat_scenario_list"} |->
         List(<<Object(<<"a">>, [x \in {"a"} |-> Str(<<"a">>)])>>)]

EmptyListResponse == [k \in {"possible_threat_scenario_list"} |-> List(<<>>)]

\* _validate_response_format that takes every dictionary for valid
ValidatesDict(o) == TRUE

\* does the answer with status 200 pass _validate_response_format
Validates(o) ==
    CASE o = "ok"    -> TRUE
      [] o = "empty" -> ValidateResponseFormat(EmptyListResponse, ThreatScenarioFormat)
      [] OTHER       -> FALSE

\* the kinds of failure of a send: the answer is not of the format, or the
\* answer did not arrive or came with an error status
FailureKind(o) ==
    IF o \in {"invalid", "empty", "notdict"} THEN "validation" ELSE "transport"

\* the kinds of failure a logical request has met so far
AddFailure(seen, o) ==
    IF seen \in {"none", FailureKind(o)} THEN FailureKind(o) ELSE "mixed"

NoError == [type |-> "none", last_error |-> "none"]

\* raise Exception(f"... retried {max_retries} times: {str(last_error)}") at
\* the end of request_ai_response_async
ExhaustedError(last) == [type |-> "Exception", last_error |-> last]

\* except clauses that raise every exception again as it is
AnalyzerErrorUnwrapped(e) == e

\* the except clauses of analyze_asset_async: a ValueError is raised again,
\* any other exception is wrapped in a RuntimeError
AnalyzerError(e) ==
    IF e.type = "ValueError" THEN e
    ELSE [type |-> "RuntimeError", last_error |-> e.last_error]
Status(o) == CASE o = "http400" -> 400 [] o = "http429" -> 429
               [] o = "http500" -> 500 [] OTHER -> 200

\* the except clauses of _send_request_async: does the inner loop raise?
InnerRaises(o, a, R) ==
    CASE o = "timeout"   -> a = R
      [] o \in {"http400", "http429", "http500"} -> (a = R \/ Status(o) >= 500)
      [] o = "transport" -> a = R
      [] OTHER           -> FALSE

\* OuterExcept of a loop that goes round once more
OuterExceptOneMore(rc, R) ==
    IF rc <= R
    THEN [pc |-> "acquire", retry_count |-> rc + 1, delay |-> OuterDelay(rc + 1)]
    ELSE [pc |-> "failed", retry_count |-> rc + 1, delay |-> 0]

\* the state a logical request is left in by the outer except clause of
\* request_ai_response_async: retry_count += 1, then sleep and loop, or give up
OuterExcept(rc, R) ==
    IF rc + 1 <= R
    THEN [pc |-> "acquire", retry_count |-> rc + 1, delay |-> OuterDelay(rc + 1)]
    ELSE [pc |-> "failed", retry_count |-> rc + 1, delay |-> 0]

\* one HTTP send of _send_request_async ending in o, at outer count rc, inner
\* attempt a and timeout ct, with everything the two loops do until the next
\* send, the return or the final raise
AfterSend(o, rc, a, ct, R) ==
    CASE IsDict(o) /\ Validates(o) ->
           [pc |-> "done", retry_count |-> rc, attempt |-> a,
            current_timeout |-> ct, delay |-> 0]
      [] o \in {"ok", "invalid", "empty", "notdict"} ->
           LET x == OuterExcept(rc, R)
           IN  [pc |-> x.pc, retry_count |-> x.retry_count, attempt |-> a,
                current_timeout |-> ct, delay |-> x.delay]
      [] OTHER ->
           LET ct2 == IF o = "timeout" THEN GrowTimeout(ct) ELSE ct
           IN  IF InnerRaises(o, a, R)
               THEN LET x == OuterExcept(rc, R)
                    IN  [pc |-> x.pc, retry_count |-> x.retry_count, attempt |-> a,
                         current_timeout |-> ct2, delay |-> x.delay]
               ELSE [pc |-> "send", retry_count |-> rc, attempt |-> a + 1,
                     current_timeout |-> ct2, delay |-> InnerWait(a)]

(* ------------------- Spec: one assistant, its requests ---------------- *)
(* The clock of Spec advances in the sleeps of the request (backoff sleeps *)
(* and waits for a token); a transmission itself takes no model time.      *)
NoObs == [sends |-> 0, debits |-> 0, lastOutcome |-> "none", lastTimeout |-> 0,
          prevTimedOut |-> 0, lastDelay |-> 0, fromRc |-> 0, fromAttempt |-> 0,
          failures |-> "none", raised |-> NoError]

\* no workflow is running
NoFlow ==
    /\ max_concurrent_assets = 0
    /\ max_concurrent_attributes = 0
    /\ asset_semaphore = 0
    /\ attribute_semaphore = 0
    /\ task = <<>>
    /\ wide = 0
    /\ run_pc = "none"
    /\ asset_tara_info_list = <<>>
    /\ exit_status = -1

\* no stage function is being followed
NoStage ==
    /\ format_json = <<>>
    /\ response_json = <<>>
    /\ artifact = <<>>
    /\ validated = "none"
    /\ stage_pc = "request"
    /\ validations = 0
    /\ children = <<>>
    /\ heap = <<>>

\* BaseAIAssistant.__init__
Init ==
    /\ max_retries \in 0..MaxRetriesBound
    /\ timeout \in BaseTimeouts
    /\ tokens = Capacity
    /\ last_refill_time = 0
    /\ now = 0
    /\ pc = "idle"
    /\ retry_count = 0
    /\ attempt = 0
    /\ current_timeout = timeout
    /\ obs = NoObs
    /\ acq = <<>>
    /\ bobs = <<>>
    /\ NoFlow
    /\ NoStage

\* request_ai_response_async is called: retry_count = 0
NewRequest ==
    /\ pc \in {"idle", "done", "failed", "refused"}
    /\ pc' = "acquire"
    /\ retry_count' = 0
    /\ attempt' = 0
    /\ current_timeout' = timeout
    /\ obs' = NoObs
    /\ UNCHANGED <<max_retries, timeout, tokens, last_refill_time, now, callerVars,
                   flowVars, stageVars>>

\* _acquire_token_async: refill, then debit one token and enter
\* _send_request_async (current_timeout = self.timeout, attempt = 0), or sleep
\* wait_time and try again
AcquireToken ==
    /\ pc = "acquire"
    /\ LET b == RefillTokens(tokens, last_refill_time, now)
       IN  IF b.tokens >= 1 * TokenScale
           THEN /\ tokens' = b.tokens - 1 * TokenScale
                /\ last_refill_time' = b.last_refill_time
                /\ pc' = "send"
                /\ attempt' = 0
                /\ current_timeout' = timeout
                /\ obs' = [obs EXCEPT !.debits = @ + 1]
                /\ now' = now
           ELSE /\ now + WaitTime(b.tokens, 1) <= MaxTime
                /\ tokens' = b.tokens
                /\ last_refill_time' = b.last_refill_time
                /\ now' = now + WaitTime(b.tokens, 1)
                /\ UNCHANGED <<pc, attempt, current_timeout, obs>>
    /\ UNCHANGED <<max_retries, timeout, retry_count, callerVars, flowVars, stageVars>>

\* session.post(..., timeout=current_timeout) ends in o; the except clauses and
\* the sleeps that follow are part of the step
Send(o) ==
    /\ pc = "send"
    /\ LET x == AfterSend(o, retry_count, attempt, current_timeout, max_retries)
       IN  /\ now + x.delay <= MaxTime
           /\ pc' = x.pc
           /\ retry_count' = x.retry_count
           /\ attempt' = x.attempt
           /\ current_timeout' = x.current_timeout
           /\ now' = now + x.delay
           /\ obs' = [obs EXCEPT !.sends = @ + 1,
                                 !.lastOutcome = o,
                                 !.lastTimeout = current_timeout,
                                 !.prevTimedOut = IF obs.lastOutcome = "timeout"
                                                  THEN obs.lastTimeout ELSE 0,
                                 !.lastDelay = x.delay,
                                 !.fromRc = retry_count,
                                 !.fromAttempt = attempt,
                                 !.failures = IF x.pc = "done" THEN @
                                              ELSE AddFailure(@, o),
                                 !.raised = IF x.pc = "failed"
                                            THEN AnalyzerError(ExhaustedError(o))
                                            ELSE NoError]
    /\ UNCHANGED <<max_retries, timeout, tokens, last_refill_time, callerVars,
                   flowVars, stageVars>>

\* "if not msg or not prompt: raise ValueError" at the head of
\* analyze_asset_async, before the assistant is entered
Refuse ==
    /\ pc \in {"idle", "done", "failed", "refused"}
    /\ pc' = "refused"
    /\ retry_count' = 0
    /\ attempt' = 0
    /\ current_timeout' = timeout
    /\ obs' = [NoObs EXCEPT !.raised =
                   AnalyzerError([type |-> "ValueError",
                                  last_error |-> "Message and prompt cannot be empty"])]
    /\ UNCHANGED <<max_retries, timeout, tokens, last_refill_time, now, callerVars,
                   flowVars, stageVars>>

\* the messages and prompts of a call: empty or not
Messages == {"", "asset"}

\* analyze_asset_async(msg, prompt, format_text)
AnalyzeAssetAsync(msg, prompt) ==
    IF msg = "" \/ prompt = "" THEN Refuse ELSE NewRequest

Next ==
    \/ \E msg, prompt \in Messages : AnalyzeAssetAsync(msg, prompt)
    \/ AcquireToken
    \/ \E o \in Outcomes : Send(o)

Spec == Init /\ [][Next]_vars
(* ------------- SpecBucket: one bucket, several callers ---------------- *)
(* Cooperative tasks call _acquire_token_async on one assistant.  The body *)
(* of "async with self._async_lock" never suspends, so one pass through    *)
(* it is one step; the sleep that follows happens outside the lock.        *)
Tasks == 1..NumTasks

Idle == [pc |-> "idle", required_tokens |-> 0, wake_at |-> 0]

\* the last pass through the critical section: who made it, for how many
\* tokens, whether it came after a sleep, and whether it returned True
NoPass == [task |-> 0, required_tokens |-> 0, retried |-> FALSE, returned |-> FALSE]

InitBucket ==
    /\ max_retries = 0
    /\ timeout = 60
    /\ tokens = Capacity
    /\ last_refill_time = 0
    /\ now = 0
    /\ pc = "idle"
    /\ retry_count = 0
    /\ attempt = 0
    /\ current_timeout = 60
    /\ obs = NoObs
    /\ acq = [t \in Tasks |-> Idle]
    /\ bobs = [granted |-> FALSE, capped |-> FALSE, last |-> NoPass]
    /\ NoFlow
    /\ NoStage

\* one pass of task t through the critical section of _acquire_token_async
\* asking for n tokens: refill, then debit and return, or compute wait_time
\* and go to sleep
CriticalSection(t, n) ==
    LET b == RefillTokens(tokens, last_refill_time, now)
    IN  /\ last_refill_time' = b.last_refill_time
        /\ IF b.tokens >= n * TokenScale
           THEN /\ tokens' = b.tokens - n * TokenScale
                /\ acq' = [acq EXCEPT ![t] = Idle]
                /\ bobs' = [granted |-> TRUE,
                            capped |-> bobs.capped \/ (b.tokens = Capacity /\ now > last_refill_time),
                            last |-> [task |-> t, required_tokens |-> n,
                                      retried |-> acq[t].pc = "sleep", returned |-> TRUE]]
           ELSE /\ tokens' = b.tokens
                /\ acq' = [acq EXCEPT ![t] = [pc |-> "sleep", required_tokens |-> n,
                                              wake_at |-> now + WaitTime(b.tokens, n)]]
                /\ bobs' = [bobs EXCEPT !.last = [task |-> t, required_tokens |-> n,
                                                  retried |-> acq[t].pc = "sleep",
                                                  returned |-> FALSE]]
        /\ UNCHANGED <<now, clientVars, flowVars, stageVars>>

\* task t calls _acquire_token_async(required_tokens = n); the calls of a
\* run arrive in its first MaxTime seconds
Acquire(t, n) ==
    /\ acq[t].pc = "idle"
    /\ now <= MaxTime
    /\ CriticalSection(t, n)

\* a caller that wakes up and debits without going round the loop: no refill
\* and no second look at the balance
RetryWithoutRecheck(t) ==
    /\ acq[t].pc = "sleep"
    /\ now >= acq[t].wake_at
    /\ tokens' = tokens - acq[t].required_tokens * TokenScale
    /\ acq' = [acq EXCEPT ![t] = Idle]
    /\ bobs' = [bobs EXCEPT !.granted = TRUE,
                            !.last = [task |-> t, required_tokens |-> acq[t].required_tokens,
                                      retried |-> TRUE, returned |-> TRUE]]
    /\ UNCHANGED <<last_refill_time, now, clientVars, flowVars, stageVars>>

\* asyncio.sleep(wait_time) is over: task t goes round the while loop
Retry(t) ==
    /\ acq[t].pc = "sleep"
    /\ now >= acq[t].wake_at
    /\ CriticalSection(t, acq[t].required_tokens)

\* a second passes: while calls arrive, and after that while a task sleeps
Tick ==
    /\ now < MaxTime \/ \E t \in Tasks : acq[t].pc = "sleep" /\ acq[t].wake_at > now
    /\ now' = now + 1
    /\ UNCHANGED <<clientVars, bucketVars, callerVars, flowVars, stageVars>>

NextBucket ==
    \/ \E t \in Tasks, n \in 1..MaxRequired : Acquire(t, n)
    \/ \E t \in Tasks : Retry(t)
    \/ Tick

SpecBucket == InitBucket /\ [][NextBucket]_vars

\* time advances, and the event loop resumes a task whose asyncio.sleep is
\* over; nothing makes a task call _acquire_token_async
SpecBucketFair ==
    /\ InitBucket
    /\ [][NextBucket]_vars
    /\ WF_vars(Tick)
    /\ \A t \in Tasks : WF_vars(Retry(t))

(* ------------- SpecLock: the lock of _acquire_token_async ------------- *)
(* The callers of SpecBucket with self._async_lock written out: a task     *)
(* enters "async with self._async_lock", awaits _refill_tokens_async, and  *)
(* then debits and returns or computes wait_time; either way it leaves     *)
(* the with block, and asyncio.sleep(wait_time) comes after it.  A task    *)
(* may be suspended at each await.                                         *)
Unlocked == 0

\* during_sleep: the last debit was made while another task was in its sleep
InitLock ==
    /\ max_retries = 0
    /\ timeout = 60
    /\ tokens = Capacity
    /\ last_refill_time = 0
    /\ now = 0
    /\ pc = "idle"
    /\ retry_count = 0
    /\ attempt = 0
    /\ current_timeout = 60
    /\ obs = NoObs
    /\ acq = [t \in Tasks |-> Idle]
    /\ bobs = [lock |-> Unlocked, during_sleep |-> FALSE]
    /\ NoFlow
    /\ NoStage

\* task t calls _acquire_token_async(required_tokens = n) and reaches the
\* with statement
CallAcquire(t, n) ==
    /\ acq[t].pc = "idle"
    /\ now <= MaxTime
    /\ acq' = [acq EXCEPT ![t] = [pc |-> "enter", required_tokens |-> n, wake_at |-> 0]]
    /\ UNCHANGED <<bobs, now, clientVars, bucketVars, flowVars, stageVars>>

\* an "async with" that takes the lock whether it is held or not
LockIgnored == TRUE

\* asyncio.Lock.acquire returns at once when the lock is not held
LockIsFree == bobs.lock = Unlocked

\* task t enters "async with self._async_lock"
EnterLock(t) ==
    /\ acq[t].pc = "enter"
    /\ LockIsFree
    /\ bobs' = [bobs EXCEPT !.lock = t]
    /\ acq' = [acq EXCEPT ![t].pc = "refill"]
    /\ UNCHANGED <<now, clientVars, bucketVars, flowVars, stageVars>>

\* await self._refill_tokens_async()
RefillLocked(t) ==
    /\ acq[t].pc = "refill"
    /\ LET b == RefillTokens(tokens, last_refill_time, now)
       IN  /\ tokens' = b.tokens
           /\ last_refill_time' = b.last_refill_time
    /\ acq' = [acq EXCEPT ![t].pc = "check"]
    /\ UNCHANGED <<bobs, now, clientVars, flowVars, stageVars>>

\* the if statement: debit and return True, or compute wait_time; both leave
\* the with block, which releases the lock, and the second goes on to
\* asyncio.sleep(wait_time)
CheckLocked(t) ==
    /\ acq[t].pc = "check"
    /\ IF tokens >= acq[t].required_tokens * TokenScale
       THEN /\ tokens' = tokens - acq[t].required_tokens * TokenScale
            /\ acq' = [acq EXCEPT ![t] = Idle]
            /\ bobs' = [lock |-> Unlocked,
                        during_sleep |-> \E u \in Tasks \ {t} :
                            acq[u].pc = "sleep" /\ now < acq[u].wake_at]
       ELSE /\ tokens' = tokens
            /\ acq' = [acq EXCEPT ![t].pc = "sleep",
                                  ![t].wake_at = now + WaitTime(tokens, acq[t].required_tokens)]
            /\ bobs' = [bobs EXCEPT !.lock = Unlocked]
    /\ UNCHANGED <<last_refill_time, now, clientVars, flowVars, stageVars>>

\* asyncio.sleep(wait_time) is over: task t goes round the while loop
WakeUp(t) ==
    /\ acq[t].pc = "sleep"
    /\ now >= acq[t].wake_at
    /\ acq' = [acq EXCEPT ![t].pc = "enter"]
    /\ UNCHANGED <<bobs, now, clientVars, bucketVars, flowVars, stageVars>>

\* the continuations of task t that are ready to run
ReadyLocked(t) ==
    \/ acq[t].pc \in {"refill", "check"}
    \/ acq[t].pc = "enter" /\ LockIsFree
    \/ acq[t].pc = "sleep" /\ now >= acq[t].wake_at

\* a second passes: the event loop has run what was ready, and calls still
\* arrive or a task sleeps
TickLock ==
    /\ \A t \in Tasks : ~ReadyLocked(t)
    /\ now < MaxTime \/ \E t \in Tasks : acq[t].pc = "sleep" /\ acq[t].wake_at > now
    /\ now' = now + 1
    /\ UNCHANGED <<clientVars, bucketVars, callerVars, flowVars, stageVars>>

NextLock ==
    \/ \E t \in Tasks, n \in 1..MaxRequired : CallAcquire(t, n)
    \/ \E t \in Tasks : EnterLock(t)
    \/ \E t \in Tasks : RefillLocked(t)
    \/ \E t \in Tasks : CheckLocked(t)
    \/ \E t \in Tasks : WakeUp(t)
    \/ TickLock

SpecLock == InitLock /\ [][NextLock]_vars

(* ------------- SpecThreads: _acquire_token called by threads ---------- *)
(* Threads call the synchronous _acquire_token on one assistant.  The      *)
(* function takes no lock, and the interpreter may switch threads between  *)
(* any two statements: after _refill_tokens, between the comparison and    *)
(* the debit, and during time.sleep.  A statement is one step.             *)
InitThreads ==
    /\ max_retries = 0
    /\ timeout = 60
    /\ tokens = Capacity
    /\ last_refill_time = 0
    /\ now = 0
    /\ pc = "idle"
    /\ retry_count = 0
    /\ attempt = 0
    /\ current_timeout = 60
    /\ obs = NoObs
    /\ acq = [t \in Tasks |-> Idle]
    /\ bobs = <<>>
    /\ NoFlow
    /\ NoStage

\* thread t calls _acquire_token(required_tokens = n)
CallAcquireSync(t, n) ==
    /\ acq[t].pc = "idle"
    /\ now <= MaxTime
    /\ acq' = [acq EXCEPT ![t] = [pc |-> "refill", required_tokens |-> n, wake_at |-> 0]]
    /\ UNCHANGED <<bobs, now, clientVars, bucketVars, flowVars, stageVars>>

\* self._refill_tokens()
RefillSync(t) ==
    /\ acq[t].pc = "refill"
    /\ LET b == RefillTokens(tokens, last_refill_time, now)
       IN  /\ tokens' = b.tokens
           /\ last_refill_time' = b.last_refill_time
    /\ acq' = [acq EXCEPT ![t].pc = "check"]
    /\ UNCHANGED <<bobs, now, clientVars, flowVars, stageVars>>

\* if self.tokens >= required_tokens; when it is not, wait_time is computed
\* and time.sleep(wait_time) begins
CheckSync(t) ==
    /\ acq[t].pc = "check"
    /\ acq' = IF tokens >= acq[t].required_tokens * TokenScale
              THEN [acq EXCEPT ![t].pc = "debit"]
              ELSE [acq EXCEPT ![t].pc = "sleep",
                               ![t].wake_at = now + WaitTime(tokens, acq[t].required_tokens)]
    /\ UNCHANGED <<bobs, now, clientVars, bucketVars, flowVars, stageVars>>

\* self.tokens -= required_tokens; return True
DebitSync(t) ==
    /\ acq[t].pc = "debit"
    /\ tokens' = tokens - acq[t].required_tokens * TokenScale
    /\ acq' = [acq EXCEPT ![t] = Idle]
    /\ UNCHANGED <<bobs, last_refill_time, now, clientVars, flowVars, stageVars>>

\* time.sleep(wait_time) is over: thread t goes round the while loop
WakeUpSync(t) ==
    /\ acq[t].pc = "sleep"
    /\ now >= acq[t].wake_at
    /\ acq' = [acq EXCEPT ![t].pc = "refill"]
    /\ UNCHANGED <<bobs, now, clientVars, bucketVars, flowVars, stageVars>>

\* a second passes: no thread is between two statements, and calls still
\* arrive or a thread sleeps
TickThreads ==
    /\ \A t \in Tasks : acq[t].pc \notin {"refill", "check", "debit"}
    /\ \A t \in Tasks : acq[t].pc = "sleep" => acq[t].wake_at > now
    /\ now < MaxTime \/ \E t \in Tasks : acq[t].pc = "sleep"
    /\ now' = now + 1
    /\ UNCHANGED <<clientVars, bucketVars, callerVars, flowVars, stageVars>>

NextThreads ==
    \/ \E t \in Tasks, n \in 1..MaxRequired : CallAcquireSync(t, n)
    \/ \E t \in Tasks : RefillSync(t)
    \/ \E t \in Tasks : CheckSync(t)
    \/ \E t \in Tasks : DebitSync(t)
    \/ \E t \in Tasks : WakeUpSync(t)
    \/ TickThreads

SpecThreads == InitThreads /\ [][NextThreads]_vars

(* ------------- SpecAnalyzers: one assistant per request --------------- *)
(* Every stage function of tara_workflow.py builds its own TARAAnalyzer,   *)
(* whose __init__ builds a new DeepSeekAIAssistant, for the one request it *)
(* issues.  The tasks are branch tasks of a run that issue their stage     *)
(* requests concurrently.                                                  *)
NoAnalyzer == [pc |-> "idle", tokens |-> 0, last_refill_time |-> 0]

InitAnalyzers ==
    /\ max_retries = 0
    /\ timeout = 60
    /\ tokens = Capacity
    /\ last_refill_time = 0
    /\ now = 0
    /\ pc = "idle"
    /\ retry_count = 0
    /\ attempt = 0
    /\ current_timeout = 60
    /\ obs = NoObs
    /\ acq = [t \in Tasks |-> NoAnalyzer]
    /\ bobs = [admitted |-> 0]
    /\ NoFlow
    /\ NoStage

\* tara_analyzer = TARAAnalyzer() in a stage function of task t:
\* BaseAIAssistant.__init__ sets tokens = max_burst, last_refill_time = now
NewAnalyzer(t) ==
    /\ acq[t].pc = "idle"
    /\ acq' = [acq EXCEPT ![t] = [pc |-> "acquire", tokens |-> Capacity,
                                  last_refill_time |-> now]]
    /\ UNCHANGED <<bobs, now, clientVars, bucketVars, flowVars, stageVars>>

\* _acquire_token_async(1), called by request_ai_response_async on the bucket
\* of the task's own assistant: refill, then debit and go on to the
\* transmission, or wait
AcquireOwn(t) ==
    /\ acq[t].pc = "acquire"
    /\ bobs.admitted < MaxAdmitted
    /\ LET b == RefillTokens(acq[t].tokens, acq[t].last_refill_time, now)
       IN  IF b.tokens >= 1 * TokenScale
           THEN /\ acq' = [acq EXCEPT ![t] = [pc |-> "send",
                                             tokens |-> b.tokens - 1 * TokenScale,
                                             last_refill_time |-> b.last_refill_time]]
                /\ bobs' = [admitted |-> bobs.admitted + 1]
           ELSE /\ acq' = [acq EXCEPT ![t] = [pc |-> "acquire", tokens |-> b.tokens,
                                             last_refill_time |-> b.last_refill_time]]
                /\ bobs' = bobs
    /\ UNCHANGED <<now, clientVars, bucketVars, flowVars, stageVars>>

\* the request is over and the stage function returns: nothing refers to the
\* analyzer any more
RequestOver(t) ==
    /\ acq[t].pc = "send"
    /\ acq' = [acq EXCEPT ![t] = NoAnalyzer]
    /\ UNCHANGED <<bobs, now, clientVars, bucketVars, flowVars, stageVars>>

NextAnalyzers ==
    \/ \E t \in Tasks : NewAnalyzer(t)
    \/ \E t \in Tasks : AcquireOwn(t)
    \/ \E t \in Tasks : RequestOver(t)
    \/ Tick

SpecAnalyzers == InitAnalyzers /\ [][NextAnalyzers]_vars

(* ----------- SpecFlow: exec_tara_analysis_workflow_async -------------- *)
(* The coroutines of one run form a tree: asset <<a>>, attribute <<a,i>>,  *)
(* damage scenario <<a,i,j>>, threat scenario <<a,i,j,k>> and attack path  *)
(* <<a,i,j,k,l>>.  A service request of the workflow is one call of        *)
(* TARAAnalyzer().analyze_asset[_async]; its retries inside the assistant  *)
(* are those of Spec, and here it ends in one answer or in an exception.   *)
(* A coroutine started by gather runs to its first await without another   *)
(* coroutine in between, so starting it and issuing its first request is   *)
(* part of the step that starts it.                                        *)
Assets == 1..NumAssets

Permits == 1..MaxPermits

\* the length of the position of an attack path, the leaf of the tree
Depth == 5

NewTask(p) ==
    [pc |-> p, n |-> 0, retry_count |-> 0, delay |-> 0, risk_treatment |-> "none",
     allocated_to_device |-> "none", result |-> <<>>, error |-> "none",
     msg_list |-> <<>>, summarized |-> 0, early |-> FALSE]

Child(node, i) == Append(node, i)

Children(node) == {Child(node, i) : i \in 1..task[node].n}

\* the coroutines created for the w entries of a list, each starting at p
Spawn(node, w, p) == [m \in {Child(node, i) : i \in 1..w} |-> NewTask(p)]

\* the numbers of entries a list of at most m entries answered now may hold
Widths(m) == {w \in 0..m : w <= 1 \/ wide < MaxWide}

Widen(w) == wide + (IF w > 1 THEN 1 ELSE 0)

\* the results of children 1..k of node that ended in a pc of ok and whose
\* early is e, in the order of the list
RECURSIVE GatheredIf(_, _, _, _)
GatheredIf(node, k, ok, e) ==
    IF k = 0 THEN <<>>
    ELSE GatheredIf(node, k - 1, ok, e) \o
         (IF task[Child(node, k)].pc \in ok /\ task[Child(node, k)].early = e
          THEN task[Child(node, k)].result ELSE <<>>)

\* the results taken in the order in which the tasks ended, as
\* asyncio.as_completed hands them out: the tasks that ended early first
GatheredAsCompleted(node, k, ok) ==
    GatheredIf(node, k, ok, TRUE) \o GatheredIf(node, k, ok, FALSE)

\* the loops over the outcomes of gather: the results of children 1..k of
\* node that ended in a pc of ok, in the order of the list
RECURSIVE Gathered(_, _, _)
Gathered(node, k, ok) ==
    IF k = 0 THEN <<>>
    ELSE Gathered(node, k - 1, ok) \o
         (IF task[Child(node, k)].pc \in ok THEN task[Child(node, k)].result ELSE <<>>)

\* the pcs at which a request of the task is in flight
InFlightPcs == {"s1", "s2a", "s2b", "s3a", "s3b", "s3c", "s4", "s5"}

InFlight == Cardinality({m \in DOMAIN task : task[m].pc \in InFlightPcs})

\* "async with semaphore" that gives its permit back only when its body
\* returned
AExitOnReturn(semaphore, raised) == IF raised THEN semaphore ELSE semaphore + 1

\* the end of "async with semaphore": __aexit__ releases the permit whether
\* the body returned or raised
AExit(semaphore, raised) == semaphore + 1

\* CanStartAsset for a task that enters _process_asset_async without a permit
\* of asset_semaphore
CanStartAssetWithoutPermit(a) ==
    <<a>> \in DOMAIN task /\ task[<<a>>].pc = "pending"

\* the continuations that are ready to run: a task that can enter its
\* semaphore, or a gather whose tasks have all ended.  The event loop runs
\* them before it hands a newly arrived answer or an expired sleep to a task.
CanStartAsset(a) ==
    <<a>> \in DOMAIN task /\ task[<<a>>].pc = "pending" /\ asset_semaphore > 0

\* CanStartAttribute for a task that asks for a permit of asset_semaphore
\* as well
CanStartAttributeWithAsset(node) ==
    Len(node) = 2 /\ task[node].pc = "pending" /\ attribute_semaphore > 0
        /\ asset_semaphore > 0

CanStartAttribute(node) ==
    Len(node) = 2 /\ task[node].pc = "pending" /\ attribute_semaphore > 0

AllEnded(node, ended) == \A c \in Children(node) : task[c].pc \in ended

ImpactGathered(node) ==
    Len(node) = 2 /\ task[node].pc = "gather_impact"
        /\ AllEnded(node, {"impact_ok", "failed"})

FeasibilityGathered(node) ==
    Len(node) = 4 /\ task[node].pc = "gather" /\ AllEnded(node, {"feasible", "failed"})

PathsGathered(node) ==
    Len(node) = 3 /\ task[node].pc = "gather_paths" /\ AllEnded(node, {"done", "failed"})

ScenariosGathered(node) ==
    Len(node) = 3 /\ task[node].pc = "gather"
        /\ \A i \in 1..Len(task[node].result) :
               task[task[node].result[i]].pc \in {"done", "gave_up"}

DamageScenariosGathered(node) ==
    Len(node) = 2 /\ task[node].pc = "gather" /\ AllEnded(node, {"done", "failed"})

AttributesGathered(a) ==
    <<a>> \in DOMAIN task /\ task[<<a>>].pc = "gather"
        /\ AllEnded(<<a>>, {"done", "failed"})

AssetsGathered ==
    run_pc = "gather" /\ \A a \in Assets : task[<<a>>].pc \in {"done", "failed"}

Runnable ==
    \/ \E a \in Assets : CanStartAsset(a) \/ AttributesGathered(a)
    \/ \E node \in DOMAIN task :
           \/ CanStartAttribute(node)
           \/ ImpactGathered(node)
           \/ FeasibilityGathered(node)
           \/ PathsGathered(node)
           \/ ScenariosGathered(node)
           \/ DamageScenariosGathered(node)
    \/ AssetsGathered

InitFlow ==
    /\ max_retries = 0
    /\ timeout = 60
    /\ tokens = Capacity
    /\ last_refill_time = 0
    /\ now = 0
    /\ pc = "idle"
    /\ retry_count = 0
    /\ attempt = 0
    /\ current_timeout = 60
    /\ obs = NoObs
    /\ acq = <<>>
    /\ bobs = <<>>
    /\ max_concurrent_assets \in Permits
    /\ max_concurrent_attributes \in Permits
    /\ asset_semaphore = 0
    /\ attribute_semaphore = 0
    /\ task = <<>>
    /\ wide = 0
    /\ run_pc = "load"
    /\ asset_tara_info_list = <<>>
    /\ exit_status = -1
    /\ NoStage

\* exec_tara_analysis_workflow_async reads the asset file: it creates the two
\* semaphores and gathers one tara_analyzer_single_asset_async for each
\* asset, or it logs the exception of read_assets_from_excel and returns
LoadAssets(ok) ==
    /\ run_pc = "load"
    /\ IF ok
       THEN /\ asset_semaphore' = max_concurrent_assets
            /\ attribute_semaphore' = max_concurrent_attributes
            /\ task' = [m \in {<<a>> : a \in Assets} |-> NewTask("pending")]
            /\ run_pc' = "gather"
       ELSE /\ run_pc' = "aborted"
            /\ UNCHANGED <<asset_semaphore, attribute_semaphore, task>>
    /\ UNCHANGED <<max_concurrent_assets, max_concurrent_attributes, wide,
                   asset_tara_info_list, exit_status, now, clientVars, bucketVars,
                   callerVars, stageVars>>

\* tara_analyzer_single_asset_async enters "async with asset_semaphore" and
\* _process_asset_async issues the attribute request
StartAsset(a) ==
    /\ CanStartAsset(a)
    /\ asset_semaphore' = asset_semaphore - 1
    /\ task' = [task EXCEPT ![<<a>>].pc = "s1"]
    /\ UNCHANGED <<max_concurrent_assets, max_concurrent_attributes, attribute_semaphore,
                   wide, run_pc, asset_tara_info_list, now, clientVars, bucketVars,
                   callerVars, stageVars, exit_status>>

\* the attribute request of asset a is answered: w attributes score above 2
\* and their tasks are gathered, or the exception leaves the asset task
AttributeList(a, ok, w) ==
    /\ <<a>> \in DOMAIN task
    /\ task[<<a>>].pc = "s1"
    /\ ~Runnable
    /\ IF ok
       THEN /\ task' = [task EXCEPT ![<<a>>].pc = "gather", ![<<a>>].n = w]
                           @@ Spawn(<<a>>, w, "pending")
            /\ wide' = Widen(w)
            /\ UNCHANGED asset_semaphore
       ELSE /\ task' = [task EXCEPT ![<<a>>].pc = "failed"]
            /\ asset_semaphore' = AExit(asset_semaphore, TRUE)
            /\ UNCHANGED wide
    /\ UNCHANGED <<max_concurrent_assets, max_concurrent_attributes, attribute_semaphore,
                   run_pc, asset_tara_info_list, now, clientVars, bucketVars,
                   callerVars, stageVars, exit_status>>

\* process_attribute_async enters "async with attribute_semaphore" and issues
\* the damage scenario list request
StartAttribute(node) ==
    /\ CanStartAttribute(node)
    /\ attribute_semaphore' = attribute_semaphore - 1
    /\ task' = [task EXCEPT ![node].pc = "s2a"]
    /\ UNCHANGED <<max_concurrent_assets, max_concurrent_attributes, asset_semaphore,
                   wide, run_pc, asset_tara_info_list, now, clientVars, bucketVars,
                   callerVars, stageVars, exit_status>>

\* the damage scenario list is answered with w scenarios, whose impact level
\* requests are gathered, or the exception leaves the attribute task
DamageScenarioList(node, ok, w) ==
    /\ Len(node) = 2
    /\ task[node].pc = "s2a"
    /\ ~Runnable
    /\ IF ok
       THEN /\ task' = [task EXCEPT ![node].pc = "gather_impact", ![node].n = w]
                           @@ Spawn(node, w, "s2b")
            /\ wide' = Widen(w)
            /\ UNCHANGED attribute_semaphore
       ELSE /\ task' = [task EXCEPT ![node].pc = "failed"]
            /\ attribute_semaphore' = AExit(attribute_semaphore, TRUE)
            /\ UNCHANGED wide
    /\ UNCHANGED <<max_concurrent_assets, max_concurrent_attributes, asset_semaphore,
                   run_pc, asset_tara_info_list, now, clientVars, bucketVars, callerVars, stageVars, exit_status>>

\* get_possible_damage_scenario_impact_level_async of one damage scenario ends
ImpactLevel(node, ok) ==
    /\ Len(node) = 3
    /\ task[node].pc = "s2b"
    /\ ~Runnable
    /\ task' = [task EXCEPT ![node].pc = IF ok THEN "impact_ok" ELSE "failed"]
    /\ UNCHANGED <<max_concurrent_assets, max_concurrent_attributes, asset_semaphore,
                   attribute_semaphore, wide, run_pc, asset_tara_info_list,
                   now, clientVars, bucketVars, callerVars, stageVars, exit_status>>

\* ValidResults with the filter of the exceptions forgotten
AllResults(node) == Children(node)

\* valid_results of asset_damage_scenario_assessment_async: the damage
\* scenarios whose impact level request did not raise
ValidResults(node) == {c \in Children(node) : task[c].pc = "impact_ok"}

\* asset_damage_scenario_assessment_async returns the valid results, and
\* process_attribute_async gathers one process_damage_scenario_async for each,
\* which issues the threat scenario list request
GatherImpact(node) ==
    LET valid == ValidResults(node)
    IN  /\ ImpactGathered(node)
        /\ task' = [m \in DOMAIN task |->
                       IF m = node THEN [task[m] EXCEPT !.pc = "gather"]
                       ELSE IF m \in valid THEN [task[m] EXCEPT !.pc = "s3a"]
                       ELSE task[m]]
        /\ UNCHANGED <<max_concurrent_assets, max_concurrent_attributes, asset_semaphore,
                       attribute_semaphore, wide, run_pc, asset_tara_info_list, now,
                       clientVars, bucketVars, callerVars, stageVars, exit_status>>

\* the threat scenario list of a damage scenario is answered with w threat
\* scenarios, whose attack path requests are gathered, or the exception
\* leaves process_damage_scenario_async
ThreatScenarioList(node, ok, w) ==
    /\ Len(node) = 3
    /\ task[node].pc = "s3a"
    /\ ~Runnable
    /\ IF ok
       THEN /\ task' = [task EXCEPT ![node].pc = "gather_paths", ![node].n = w]
                           @@ Spawn(node, w, "s3b")
            /\ wide' = Widen(w)
       ELSE /\ task' = [task EXCEPT ![node].pc = "failed"]
            /\ UNCHANGED wide
    /\ UNCHANGED <<max_concurrent_assets, max_concurrent_attributes, asset_semaphore,
                   attribute_semaphore, run_pc, asset_tara_info_list, now, clientVars,
                   bucketVars, callerVars, stageVars, exit_status>>

\* the attack path list of a threat scenario is answered with w paths, whose
\* feasibility requests are gathered; an exception is caught by
\* process_threat_scenario_with_attack_paths_async, which returns []
AttackPathList(node, ok, w) ==
    /\ Len(node) = 4
    /\ task[node].pc = "s3b"
    /\ ~Runnable
    /\ IF ok
       THEN /\ task' = [task EXCEPT ![node].pc = "gather", ![node].n = w]
                           @@ Spawn(node, w, "s3c")
            /\ wide' = Widen(w)
       ELSE /\ task' = [task EXCEPT ![node].pc = "failed"]
            /\ UNCHANGED wide
    /\ UNCHANGED <<max_concurrent_assets, max_concurrent_attributes, asset_semaphore,
                   attribute_semaphore, run_pc, asset_tara_info_list, now, clientVars,
                   bucketVars, callerVars, stageVars, exit_status>>

\* get_possible_threat_scenario_attack_path_feasibilities_async of one path ends
Feasibility(node, ok) ==
    /\ Len(node) = Depth
    /\ task[node].pc = "s3c"
    /\ ~Runnable
    /\ task' = [task EXCEPT ![node].pc = IF ok THEN "feasible" ELSE "failed",
                            ![node].result = IF ok THEN <<node>> ELSE <<>>]
    /\ UNCHANGED <<max_concurrent_assets, max_concurrent_attributes, asset_semaphore,
                   attribute_semaphore, wide, run_pc, asset_tara_info_list,
                   now, clientVars, bucketVars, callerVars, stageVars, exit_status>>

\* process_threat_scenario_with_attack_paths_async returns the paths whose
\* feasibility request succeeded
GatherFeasibility(node) ==
    /\ FeasibilityGathered(node)
    /\ task' = [task EXCEPT ![node].pc = "done",
                            ![node].result = Gathered(node, task[node].n, {"feasible"})]
    /\ UNCHANGED <<max_concurrent_assets, max_concurrent_attributes, asset_semaphore,
                   attribute_semaphore, wide, run_pc, asset_tara_info_list,
                   now, clientVars, bucketVars, callerVars, stageVars, exit_status>>

\* asset_threat_scenario_assessment_async returns the attack paths of all the
\* threat scenarios, and process_damage_scenario_async gathers one
\* process_threat_scenario_async for each, which issues the risk treatment
\* request
GatherPaths(node) ==
    LET paths == Gathered(node, task[node].n, {"done"})
        started == {paths[i] : i \in 1..Len(paths)}
    IN  /\ PathsGathered(node)
        /\ task' = [m \in DOMAIN task |->
                       IF m = node THEN [task[m] EXCEPT !.pc = "gather", !.result = paths]
                       ELSE IF m \in started THEN [task[m] EXCEPT !.pc = "s4"]
                       ELSE task[m]]
        /\ UNCHANGED <<max_concurrent_assets, max_concurrent_attributes, asset_semaphore,
                       attribute_semaphore, wide, run_pc, asset_tara_info_list, now,
                       clientVars, bucketVars, callerVars, stageVars, exit_status>>

\* ScenarioExcept with "retry_count > max_retries" tested one round late
ScenarioExceptOneMore(t, e) ==
    IF t.retry_count + 1 > ScenarioMaxRetries + 1
    THEN [t EXCEPT !.pc = "gave_up", !.retry_count = @ + 1, !.result = <<>>,
                   !.risk_treatment = "none"]
    ELSE [t EXCEPT !.pc = "sleep", !.retry_count = @ + 1,
                   !.delay = Pow2(t.retry_count), !.error = e]

\* the except clause of process_threat_scenario_async catches exception e:
\* retry_count += 1, then return None, or sleep 2 ** (retry_count - 1) with
\* e still bound
ScenarioExcept(t, e) ==
    IF t.retry_count + 1 > ScenarioMaxRetries
    THEN [t EXCEPT !.pc = "gave_up", !.retry_count = @ + 1, !.result = <<>>,
                   !.risk_treatment = "none"]
    ELSE [t EXCEPT !.pc = "sleep", !.retry_count = @ + 1,
                   !.delay = Pow2(t.retry_count), !.error = e]

\* the risk treatment request of an attack path ends: in an exception, in
\* "reduce", after which asset_cso_csr_assessment_async issues the CSO/CSR
\* request, in another treatment, after which it issues none, or in an
\* empty "risk_treatment", for which set_risk_treatment stores None and
\* asset_cso_csr_assessment_async, having attached an empty requirement,
\* raises AttributeError on risk_treatment.name
RiskTreatment(node, o) ==
    /\ Len(node) = Depth
    /\ task[node].pc = "s4"
    /\ ~Runnable
    /\ CASE o = "fail" ->
              /\ task' = [task EXCEPT ![node] = ScenarioExcept(@, "RuntimeError")]
         [] o = "empty" ->
              /\ task' = [task EXCEPT ![node] =
                             ScenarioExcept([@ EXCEPT !.allocated_to_device = "none"],
                                            "AttributeError")]
         [] o = "reduce" ->
              /\ task' = [task EXCEPT ![node].pc = "s5", ![node].risk_treatment = o]
         [] OTHER ->
              /\ task' = [task EXCEPT ![node].pc = "done", ![node].risk_treatment = o,
                                      ![node].allocated_to_device = "none"]
    /\ UNCHANGED <<max_concurrent_assets, max_concurrent_attributes, asset_semaphore,
                   attribute_semaphore, wide, run_pc, asset_tara_info_list, now,
                   clientVars, bucketVars, callerVars, stageVars, exit_status>>

\* the CSO/CSR request of an attack path ends: in an exception, or in a
\* requirement with allocated_to_device = o
CsoCsr(node, o) ==
    /\ Len(node) = Depth
    /\ task[node].pc = "s5"
    /\ ~Runnable
    /\ task' = [task EXCEPT ![node] =
                   IF o = "fail" THEN ScenarioExcept(@, "RuntimeError")
                   ELSE [@ EXCEPT !.pc = "done", !.allocated_to_device = o]]
    /\ UNCHANGED <<max_concurrent_assets, max_concurrent_attributes, asset_semaphore,
                   attribute_semaphore, wide, run_pc, asset_tara_info_list,
                   now, clientVars, bucketVars, callerVars, stageVars, exit_status>>

\* asyncio.sleep is over: process_threat_scenario_async goes round its loop,
\* and asset_threat_risk_treatment_assessment_async attaches a new
\* RiskTreatmentDecision and issues the risk treatment request again
RetryScenario(node) ==
    /\ task[node].pc = "sleep"
    /\ ~Runnable
    /\ task' = [task EXCEPT ![node].pc = "s4", ![node].error = "none",
                            ![node].risk_treatment = "none"]
    /\ UNCHANGED <<max_concurrent_assets, max_concurrent_attributes, asset_semaphore,
                   attribute_semaphore, wide, run_pc, asset_tara_info_list, now,
                   clientVars, bucketVars, callerVars, stageVars, exit_status>>

\* IsDone with the result of a scenario that gave up taken for a result
IsEnded(m) == task[m].pc \in {"done", "gave_up"}

\* "if result:" in process_damage_scenario_async: the task returned its
\* artifact, not None
IsDone(m) == task[m].pc = "done"

\* process_damage_scenario_async returns the results that are not None
GatherScenarios(node) ==
    /\ ScenariosGathered(node)
    /\ task' = [task EXCEPT ![node].pc = "done",
                            ![node].result = SelectSeq(task[node].result, IsDone)]
    /\ UNCHANGED <<max_concurrent_assets, max_concurrent_attributes, asset_semaphore,
                   attribute_semaphore, wide, run_pc, asset_tara_info_list,
                   now, clientVars, bucketVars, callerVars, stageVars, exit_status>>

\* process_attribute_async returns the results of the damage scenarios that
\* did not raise and leaves "async with attribute_semaphore"
GatherDamageScenarios(node) ==
    /\ DamageScenariosGathered(node)
    /\ task' = [task EXCEPT ![node].pc = "done",
                            ![node].result = Gathered(node, task[node].n, {"done"})]
    /\ attribute_semaphore' = AExit(attribute_semaphore, FALSE)
    /\ UNCHANGED <<max_concurrent_assets, max_concurrent_attributes, asset_semaphore,
                   wide, run_pc, asset_tara_info_list, now, clientVars,
                   bucketVars, callerVars, stageVars, exit_status>>

IsAllocated(m) == task[m].allocated_to_device = "yes"

\* summarize_single_asset_cybersecurity_requirements raises without a request:
\* asset_csr_info is None for an empty list, and analyze_asset refuses the
\* empty message built when no requirement is allocated to the device
SummarizeRaises(list) == list = <<>> \/ SelectSeq(list, IsAllocated) = <<>>

\* the task of an asset before a in the list of gather has not ended
StillRunning(a) ==
    \E b \in Assets : b < a /\ task[<<b>>].pc \notin {"done", "failed"}

\* _process_asset_async collects the results of the attributes that did not
\* raise and calls summarize_single_asset_cybersecurity_requirements, a
\* blocking call whose request ends in ok; then the asset task returns its
\* list, or the exception leaves it, and "async with asset_semaphore" ends.
\* msg_list holds the artifacts the message of the request was built from,
\* summarized counts the requests issued, early tells that the task of an
\* asset before this one in the list of gather was still running.
Summarize(a, ok) ==
    LET node == <<a>>
        list == Gathered(node, task[node].n, {"done"})
    IN  /\ AttributesGathered(a)
        /\ task' = [task EXCEPT ![node] =
                       IF SummarizeRaises(list)
                       THEN [@ EXCEPT !.pc = "failed"]
                       ELSE IF ~ok
                       THEN [@ EXCEPT !.pc = "failed",
                                      !.msg_list = SelectSeq(list, IsAllocated),
                                      !.summarized = @ + 1]
                       ELSE [@ EXCEPT !.pc = "done", !.result = list,
                                      !.msg_list = SelectSeq(list, IsAllocated),
                                      !.summarized = @ + 1,
                                      !.early = StillRunning(a)]]
        /\ asset_semaphore' = AExit(asset_semaphore, SummarizeRaises(list) \/ ~ok)
        /\ UNCHANGED <<max_concurrent_assets, max_concurrent_attributes,
                       attribute_semaphore, wide, run_pc, asset_tara_info_list, now,
                       clientVars, bucketVars, callerVars, stageVars, exit_status>>

\* exec_tara_analysis_workflow_async after its gather: the lists of the assets
\* that did not raise are joined and written, or the exception of
\* write_asset_tara_info_to_csv leaves the function and its locals
WriteResults(ok) ==
    /\ AssetsGathered
    /\ IF ok
       THEN /\ asset_tara_info_list' = Gathered(<<>>, NumAssets, {"done"})
            /\ run_pc' = "written"
            /\ UNCHANGED task
       ELSE /\ run_pc' = "raised"
            /\ task' = <<>>
            /\ UNCHANGED asset_tara_info_list
    /\ UNCHANGED <<max_concurrent_assets, max_concurrent_attributes, asset_semaphore,
                   attribute_semaphore, wide, now, clientVars,
                   bucketVars, callerVars, stageVars, exit_status>>

\* main_async and asyncio.run: the exception of the workflow is logged and
\* raised again, which ends the process with status 1; a workflow that
\* returned ends it with status 0.  The objects of the run end with it.
Exit ==
    /\ run_pc \in {"written", "aborted", "raised"}
    /\ exit_status' = IF run_pc = "raised" THEN 1 ELSE 0
    /\ run_pc' = "exited"
    /\ task' = <<>>
    /\ UNCHANGED <<max_concurrent_assets, max_concurrent_attributes, asset_semaphore,
                   attribute_semaphore, wide, asset_tara_info_list, now,
                   clientVars, bucketVars, callerVars, stageVars>>

\* the steps of a run whose lists of attack paths hold at most fan entries
FlowSteps(fan) ==
    \/ \E ok \in BOOLEAN : LoadAssets(ok)
    \/ \E a \in Assets : StartAsset(a)
    \/ \E a \in Assets, ok \in BOOLEAN, w \in Widths(MaxList) : AttributeList(a, ok, w)
    \/ \E node \in DOMAIN task : StartAttribute(node)
    \/ \E node \in DOMAIN task, ok \in BOOLEAN, w \in Widths(MaxList) : DamageScenarioList(node, ok, w)
    \/ \E node \in DOMAIN task, ok \in BOOLEAN : ImpactLevel(node, ok)
    \/ \E node \in DOMAIN task : GatherImpact(node)
    \/ \E node \in DOMAIN task, ok \in BOOLEAN, w \in Widths(MaxList) : ThreatScenarioList(node, ok, w)
    \/ \E node \in DOMAIN task, ok \in BOOLEAN, w \in Widths(fan) : AttackPathList(node, ok, w)
    \/ \E node \in DOMAIN task, ok \in BOOLEAN : Feasibility(node, ok)
    \/ \E node \in DOMAIN task : GatherFeasibility(node)
    \/ \E node \in DOMAIN task : GatherPaths(node)
    \/ \E node \in DOMAIN task, o \in {"fail", "empty", "reduce", "retain"} : RiskTreatment(node, o)
    \/ \E node \in DOMAIN task, o \in {"fail", "yes", "no"} : CsoCsr(node, o)
    \/ \E node \in DOMAIN task : RetryScenario(node)
    \/ \E node \in DOMAIN task : GatherScenarios(node)
    \/ \E node \in DOMAIN task : GatherDamageScenarios(node)
    \/ \E a \in Assets, ok \in BOOLEAN : Summarize(a, ok)
    \/ \E ok \in BOOLEAN : WriteResults(ok)
    \/ Exit

NextFlow == FlowSteps(MaxFan)

SpecFlow == InitFlow /\ [][NextFlow]_vars

(* SpecFlowFair: the runs in which no list holds more than MaxList entries, *)
(* under fairness: the event loop runs every continuation that is ready,   *)
(* and every service request is answered or fails in the end.  The         *)
(* requests of the attack paths are issued inside the permit of their      *)
(* attribute task, so their number changes nothing in who holds a permit   *)
(* and who waits for one.                                                  *)
NextFlowFair == FlowSteps(MaxList)

SpecFlowFair == InitFlow /\ [][NextFlowFair]_vars /\ WF_vars(NextFlowFair)

(* The synchronous workflow on the outcomes recorded in task: it issues the  *)
(* same requests one after the other, has no try/except around a stage and  *)
(* no retry loop around the risk treatment, so the first failing request    *)
(* ends the run before anything is written.                                 *)
Raised == [raised |-> TRUE, list |-> <<>>]

\* did a request issued for this position fail the first time it was issued
FirstFailed(m) == task[m].pc \in {"failed", "gave_up"} \/ task[m].retry_count > 0

RECURSIVE SyncBranch(_), SyncEach(_, _)
\* the nested for loops of tara_analyzer_single_asset below position node
SyncEach(node, k) ==
    IF k = 0 THEN [raised |-> FALSE, list |-> <<>>]
    ELSE LET head == SyncEach(node, k - 1)
             x == SyncBranch(Child(node, k))
         IN  IF head.raised \/ x.raised THEN Raised
             ELSE [raised |-> FALSE, list |-> head.list \o x.list]

SyncBranch(node) ==
    IF FirstFailed(node) THEN Raised
    ELSE IF Len(node) = Depth THEN [raised |-> FALSE, list |-> <<node>>]
    ELSE SyncEach(node, task[node].n)

\* exec_tara_analysis_workflow: the loop over the assets, then the write
SyncRun ==
    LET x == SyncEach(<<>>, NumAssets)
    IN  [completed |-> ~x.raised, list |-> x.list]

(* ------------- SpecStage: one validated stage response ---------------- *)
(* _validate_response_format on a parsed response, and the loop of a stage *)
(* function over the response it was handed.                               *)
\* the keys of the lists the three fan-out stages loop over
FanOutKeys == {"possible_damage_scenario_list", "possible_threat_scenario_list",
               "possible_attack_path_list"}

\* format_json of a stage has one top-level key
StageKey(fmt) == CHOOSE key \in DOMAIN fmt : TRUE

\* a field of an artifact that is not set
Unset == [t |-> "none", s |-> <<>>, items |-> <<>>, f |-> <<>>, keys |-> <<>>]

\* AssetTaraInfo: the asset and its attribute, the DamageScenarioImpactLevel
\* and the ThreatScenarioAttackFeasibility, before any stage has set them
NoArtifact ==
    [asset_id |-> "none", assigned_security_attribute |-> "none",
     damage_scenario_sn |-> "none", damage_scenario |-> Unset,
     threat_id |-> "none", threat_scenario |-> Unset, attack_path |-> Unset]

\* the artifact handed to a stage: what the stages before it have set
StageInput(stage) ==
    LET attribute == [NoArtifact EXCEPT !.asset_id = "asset_1",
                                        !.assigned_security_attribute = "integrity"]
        damage == [attribute EXCEPT !.damage_scenario_sn = "b",
                                    !.damage_scenario = Str(<<"a">>)]
        threat == [damage EXCEPT !.threat_id = "a",
                                 !.threat_scenario = Str(<<" ", "a", " ">>),
                                 !.attack_path = Str(<<>>)]
    IN  CASE stage = "possible_damage_scenario_list" -> attribute
          [] stage = "possible_threat_scenario_list" -> damage
          [] stage = "possible_attack_path_list" -> threat
          [] OTHER -> NoArtifact

InitStage ==
    /\ max_retries = 0
    /\ timeout = 60
    /\ tokens = Capacity
    /\ last_refill_time = 0
    /\ now = 0
    /\ pc = "idle"
    /\ retry_count = 0
    /\ attempt = 0
    /\ current_timeout = 60
    /\ obs = NoObs
    /\ acq = <<>>
    /\ bobs = <<>>
    /\ NoFlow
    /\ format_json \in Templates
    /\ response_json \in Responses(format_json)
    /\ artifact = StageInput(StageKey(format_json))
    /\ validated = "none"
    /\ stage_pc = "request"
    /\ validations = 0
    /\ children = <<>>
    /\ heap = <<>>

\* request_ai_response_async validates the parsed response: the stage
\* function goes on with the returned response, or the exception of the
\* analyzer leaves it
Validate ==
    /\ stage_pc = "request"
    /\ validated' = IF ValidateResponseFormat(response_json, format_json)
                    THEN "True" ELSE "False"
    /\ stage_pc' = IF ValidateResponseFormat(response_json, format_json)
                   THEN "loop" ELSE "raised"
    /\ validations' = validations + 1
    /\ UNCHANGED <<format_json, response_json, artifact, children, heap, now, clientVars,
                   bucketVars, callerVars, flowVars>>

\* a child built from an empty artifact instead of a copy of the parent
ChildWithoutAncestry(stage, parent, key, value) ==
    CASE stage = "possible_damage_scenario_list" ->
             [NoArtifact EXCEPT !.damage_scenario_sn = key, !.damage_scenario = value]
      [] stage = "possible_threat_scenario_list" ->
             [NoArtifact EXCEPT !.threat_id = key, !.threat_scenario = value,
                                !.attack_path = Str(<<>>)]
      [] OTHER ->
             [NoArtifact EXCEPT !.attack_path = value]

\* the child of one member of an entry: copy.deepcopy of the parent, with a
\* new DamageScenarioImpactLevel(key, value), with a new
\* ThreatScenarioAttackFeasibility(key, value, ""), or with attack_path = value
ChildOf(stage, parent, key, value) ==
    CASE stage = "possible_damage_scenario_list" ->
             [parent EXCEPT !.damage_scenario_sn = key, !.damage_scenario = value]
      [] stage = "possible_threat_scenario_list" ->
             [parent EXCEPT !.threat_id = key, !.threat_scenario = value,
                            !.attack_path = Str(<<>>)]
      [] OTHER ->
             [parent EXCEPT !.attack_path = value]

RECURSIVE ItemChildren(_, _, _, _), ListChildren(_, _, _, _)
\* "for key, value in item.items()" over the first n members of item
ItemChildren(stage, parent, item, n) ==
    IF n = 0 THEN <<>>
    ELSE Append(ItemChildren(stage, parent, item, n - 1),
                ChildOf(stage, parent, item.keys[n], item.f[item.keys[n]]))

\* "for item in analysis_result[stage]" over the first n entries
ListChildren(stage, parent, items, n) ==
    IF n = 0 THEN <<>>
    ELSE ListChildren(stage, parent, items, n - 1)
             \o ItemChildren(stage, parent, items[n], Len(items[n].keys))

\* the stage function builds its list from the response and returns it; the
\* stages that are not fan-out stages return without a list
FanOut ==
    /\ stage_pc = "loop"
    /\ children' =
           IF StageKey(format_json) \in FanOutKeys
           THEN ListChildren(StageKey(format_json), artifact,
                             response_json[StageKey(format_json)].items,
                             Len(response_json[StageKey(format_json)].items))
           ELSE <<>>
    /\ stage_pc' = "returned"
    /\ UNCHANGED <<format_json, response_json, artifact, validated, validations, heap, now,
                   clientVars,
                   bucketVars, callerVars, flowVars>>

NextStage ==
    \/ Validate
    \/ FanOut

SpecStage == InitStage /\ [][NextStage]_vars

(* ------------- SpecValidate: the validator called again --------------- *)
(* _validate_response_format is a method that can be called any number of  *)
(* times: on the pair of the stage, and in between on the pairs of other   *)
(* requests of the same assistant.                                         *)
InitValidate ==
    /\ max_retries = 0
    /\ timeout = 60
    /\ tokens = Capacity
    /\ last_refill_time = 0
    /\ now = 0
    /\ pc = "idle"
    /\ retry_count = 0
    /\ attempt = 0
    /\ current_timeout = 60
    /\ obs = NoObs
    /\ acq = <<>>
    /\ bobs = <<>>
    /\ NoFlow
    /\ format_json \in Templates
    /\ response_json \in ResponsesUpTo(format_json, MaxList)
    /\ artifact = StageInput(StageKey(format_json))
    /\ validated = "none"
    /\ stage_pc = "request"
    /\ validations = 0
    /\ children = <<>>
    /\ heap = <<>>

\* _validate_response_format is called again with the pair of the stage
Revalidate ==
    /\ stage_pc \in {"loop", "raised"}
    /\ validations < MaxValidations
    /\ validated' = IF ValidateResponseFormat(response_json, format_json)
                    THEN "True" ELSE "False"
    /\ validations' = validations + 1
    /\ UNCHANGED <<format_json, response_json, artifact, stage_pc, children, heap, now,
                   clientVars, bucketVars, callerVars, flowVars>>

\* _validate_response_format is called with the pair of another request; its
\* result goes to that request
ValidateOther(resp, fmt) ==
    /\ validations < MaxValidations
    /\ ValidateResponseFormat(resp, fmt) \in BOOLEAN
    /\ validations' = validations + 1
    /\ UNCHANGED <<format_json, response_json, artifact, validated, stage_pc, children, heap,
                   now, clientVars, bucketVars, callerVars, flowVars>>

NextValidate ==
    \/ Validate
    \/ Revalidate
    \/ \E fmt \in Templates : \E resp \in ResponsesUpTo(fmt, 0) : ValidateOther(resp, fmt)

SpecValidate == InitValidate /\ [][NextValidate]_vars

(* ----------------------- claims checked under Spec -------------------- *)

\* C1: with max_retries = R one logical request makes at most R+1
\* transmissions in total, and it fails only after R+1 attempts
C1_AttemptBound ==
    /\ obs.sends <= max_retries + 1
    /\ (pc = "failed" => obs.sends >= max_retries + 1)

\* C7: a response with a status below 500 that is not the throttling code is
\* terminal on its first occurrence: the request surfaces the failure with no
\* further transmission and no backoff sleep
C7_ClientErrorTerminal ==
    obs.lastOutcome = "http400" => (pc = "failed" /\ obs.lastDelay = 0)

\* C8: a status >= 500 is handled exactly like a transport error at the same
\* attempt index: the same decision, the same delay, the same next attempt
C8_ServerErrorLikeTransport ==
    obs.lastOutcome = "http500" =>
        LET x == AfterSend("transport", obs.fromRc, obs.fromAttempt,
                           obs.lastTimeout, max_retries)
        IN  /\ pc = x.pc
            /\ retry_count = x.retry_count
            /\ attempt = x.attempt
            /\ obs.lastDelay = x.delay

\* C9: across consecutive timeout failures of one logical request the timeout
\* used per attempt is non-decreasing and never exceeds the ceiling
C9_TimeoutGrowth ==
    /\ (obs.sends >= 1 => obs.lastTimeout <= TimeoutCeiling)
    /\ (obs.lastOutcome = "timeout" /\ obs.prevTimedOut > 0
            => obs.lastTimeout >= obs.prevTimedOut)

\* C10: the delay slept between failed attempt k and the next attempt is
\* min(2^(k-1), 30), k counting the transmissions of the logical request
C10_BackoffDelay ==
    (pc \in {"acquire", "send"} /\ obs.sends >= 1)
        => obs.lastDelay = Min(Pow2(obs.sends - 1), MaxDelay)

\* C12: an answer to a list-returning stage whose list has no entry ends the
\* request as a result, not as an error: no retry and no sleep follow it and
\* no failure is raised for it
C12_EmptyListTerminal ==
    obs.lastOutcome = "empty" => (pc = "done" /\ obs.lastDelay = 0)

\* the exception types surfaced when the budget is exhausted by failures of
\* the transmission
TransportExhausted ==
    {AnalyzerError(ExhaustedError(o)).type :
         o \in {"timeout", "transport", "http400", "http429", "http500"}}

\* C18: when the budget of a logical request is exhausted with validation
\* failures only, the failure surfaced to the caller is of a kind that is
\* not the kind surfaced when the budget is exhausted by transport failures
C18_ShapeInvalidDistinct ==
    (pc = "failed" /\ obs.failures = "validation")
        => obs.raised.type \notin TransportExhausted

\* C23: every transmission is preceded by its own acquisition of one token:
\* at every point of a logical request the transmissions performed so far
\* are no more than the tokens the request has debited
C23_TokenPerTransmission == obs.sends <= obs.debits

\* C33: a logical request that returns instead of raising returns the
\* answer of its last transmission, a dictionary of the format of the
\* caller, validated in the attempt that produced it: no answer that is no
\* dictionary or failed the validation is returned
C33_ReturnsValidated ==
    pc = "done" =>
        /\ obs.lastOutcome = "ok"
        /\ obs.fromRc = retry_count
        /\ obs.fromAttempt = attempt

\* C33 witness: the request returned after earlier answers were refused by
\* the validation
C33_Witness ==
    /\ pc = "done"
    /\ obs.lastOutcome = "ok"
    /\ retry_count >= 1
    /\ obs.failures = "validation"

\* C34: with max_retries = R a logical request performs at most (R+1)^2
\* transmissions and debits at most R+1 tokens: each of its at most R+1
\* rounds acquires one token and runs one _send_request_async, which sends
\* at most R+1 times
C34_TransmissionBound ==
    /\ obs.sends <= (max_retries + 1) * (max_retries + 1)
    /\ obs.debits <= max_retries + 1
    /\ retry_count <= max_retries + 1
    /\ attempt <= max_retries

\* C34 witness: a request with max_retries = 1 gave up after 4 transmissions
\* and 2 tokens
C34_Witness ==
    /\ pc = "failed"
    /\ max_retries = 1
    /\ obs.sends = 4
    /\ obs.debits = 2

\* C38: a call of analyze_asset_async with an empty message or an empty
\* prompt raises ValueError without acquiring a token and without
\* transmitting; every failure of the request itself reaches the caller as
\* RuntimeError
C38_AnalyzerErrors ==
    [][/\ pc' = "refused" =>
              /\ obs'.raised.type = "ValueError"
              /\ obs'.sends = 0
              /\ obs'.debits = 0
              /\ UNCHANGED <<tokens, last_refill_time>>
       /\ pc' = "failed" => obs'.raised.type = "RuntimeError"
       /\ pc' \notin {"refused", "failed"} => obs'.raised = NoError
      ]_vars

\* C38 witness: a call with an empty message was refused after an earlier
\* request had used up the bucket, which the refused call left alone
C38_Witness ==
    /\ pc = "refused"
    /\ obs.raised.type = "ValueError"
    /\ obs.debits = 0
    /\ tokens < TokenScale

(* -------------------- claims checked under SpecBucket ----------------- *)

\* C3: in every reachable state 0 <= tokens <= capacity: a refill never
\* raises tokens above max_burst and a debit never leaves them negative
C3_TokensInRange == 0 <= tokens /\ tokens <= Capacity

\* C3 witness: the bucket was refilled up to its cap, tokens were granted, and
\* a caller now sleeps because the bucket holds less than one token
C3_Witness ==
    /\ bobs.capped
    /\ bobs.granted
    /\ tokens < TokenScale
    /\ \E t \in Tasks : acq[t].pc = "sleep"

\* the balance a pass through the critical section finds after its refill
Refilled == RefillTokens(tokens, last_refill_time, now).tokens

\* a step of a caller through the critical section: it returns True after
\* debiting exactly required_tokens from a balance that held them, or it
\* leaves the balance alone and sleeps (required_tokens - tokens) /
\* token_refill_rate; a sleeping caller becomes idle only by such a debit
PassDebitsOrSleeps ==
    now' = now =>
        LET last == bobs'.last
            n == last.required_tokens
        IN  /\ last.task \in Tasks
            /\ IF last.returned
               THEN /\ Refilled >= n * TokenScale
                    /\ tokens' = Refilled - n * TokenScale
                    /\ acq'[last.task] = Idle
               ELSE /\ Refilled < n * TokenScale
                    /\ tokens' = Refilled
                    /\ acq'[last.task] =
                           [pc |-> "sleep", required_tokens |-> n,
                            wake_at |-> now + WaitTime(Refilled, n)]
            /\ \A t \in Tasks : acq'[t] # acq[t] => t = last.task

\* some caller sleeps in _acquire_token_async
SomeCallerWaits == \E t \in Tasks : acq[t].pc = "sleep"

\* C20: a caller of _acquire_token_async that finds fewer than
\* required_tokens sleeps (required_tokens - tokens) / token_refill_rate and
\* goes round the whole loop again, a caller returns only after debiting
\* exactly required_tokens, and whenever a caller waits and time advances,
\* some caller eventually debits its tokens and returns
C20_AcquireProgress ==
    /\ [][PassDebitsOrSleeps]_vars
    /\ SomeCallerWaits ~> bobs.last.returned

\* C20 witness: a caller that slept has gone round the loop and returned
\* while the other caller still waits
C20_Witness ==
    /\ bobs.last.returned
    /\ bobs.last.retried
    /\ \E t \in Tasks : t # bobs.last.task /\ acq[t].pc = "sleep"
    /\ tokens < TokenScale
(* --------------------- claims checked under SpecLock ------------------ *)

\* the tasks between the refill and the end of the with block
InCriticalSection == {t \in Tasks : acq[t].pc \in {"refill", "check"}}

\* C24: refill, check and debit of a cooperative caller run as one critical
\* section: at most one task is inside it, that task holds the lock, tokens
\* never go below zero, and a task that sleeps for the refill does not hold
\* the lock
C24_CriticalSection ==
    /\ Cardinality(InCriticalSection) <= 1
    /\ \A t \in InCriticalSection : bobs.lock = t
    /\ \A t \in Tasks : acq[t].pc = "sleep" => bobs.lock # t
    /\ tokens >= 0

\* C24 witness: a task sleeps for the refill, and during its sleep another
\* task has gone through the critical section and debited its tokens
C24_Witness ==
    /\ bobs.during_sleep
    /\ bobs.lock = Unlocked
    /\ \E t \in Tasks : acq[t].pc = "sleep" /\ now < acq[t].wake_at

(* -------------------- claims checked under SpecThreads ---------------- *)

\* the threads that have passed the check and not yet debited
PassedCheck == {t \in Tasks : acq[t].pc = "debit"}

\* C25: under every interleaving of the threads, no two threads have both
\* passed the check of _acquire_token on the same tokens (the tokens cover
\* the debits of all the threads that passed it), and tokens never become
\* negative
C25_ExclusiveLocking ==
    /\ \A t, u \in PassedCheck :
           t # u => tokens >= (acq[t].required_tokens + acq[u].required_tokens) * TokenScale
    /\ tokens >= 0

(* -------------------- claims checked under SpecAnalyzers -------------- *)

\* C2: all the requests of a run are admitted through one shared token
\* bucket: the number admitted in the interval from the start of the run to
\* now never exceeds capacity + refill rate * length of the interval
C2_SharedBucketRate ==
    bobs.admitted * TokenScale <= Capacity + token_refill_rate * now

(* ---------------------- claims checked under SpecFlow ----------------- *)

Completed(a) == {m \in DOMAIN task : Len(m) = Depth /\ m[1] = a /\ task[m].pc = "done"}

FailedBranches(a) ==
    {m \in DOMAIN task : Len(m) > 1 /\ m[1] = a /\ task[m].pc \in {"failed", "gave_up"}}

Written(a) ==
    {i \in 1..Len(asset_tara_info_list) : asset_tara_info_list[i][1] = a}

\* C4: when a branch under a root item has failed, every branch of that root
\* that completed is in the collection written by the run, and the number of
\* entries of that root equals the number of its completed branches
C4_BranchIsolation ==
    run_pc = "written" =>
        \A a \in Assets :
            FailedBranches(a) # {} =>
                /\ \A m \in Completed(a) : \E i \in Written(a) : asset_tara_info_list[i] = m
                /\ Cardinality(Written(a)) = Cardinality(Completed(a))

\* C5: the number of service requests in flight across the run is at most
\* the number of branch-step permits, max_concurrent_attributes
C5_InFlightBound == InFlight <= max_concurrent_attributes

\* C6: on the same service outcomes the synchronous workflow completes the run
\* as the cooperative one does, and produces the same final collection
C6_SyncEquivalent ==
    run_pc = "written" => (SyncRun.completed /\ SyncRun.list = asset_tara_info_list)
\* the positions above m in the tree: its threat scenario, damage scenario,
\* attribute and asset
Ancestors(m) == {SubSeq(m, 1, k) : k \in 1..(Len(m) - 1)}

\* C13: every artifact of the final collection comes from a branch whose
\* every stage succeeded, the last one included: a branch that ended in
\* failure at any stage contributes nothing
C13_NoFailedArtifact ==
    run_pc = "written" =>
        \A i \in 1..Len(asset_tara_info_list) :
            LET m == asset_tara_info_list[i]
            IN  /\ m \in DOMAIN task
                /\ Len(m) = Depth
                /\ task[m].pc = "done"
                /\ \A n \in Ancestors(m) : task[n].pc = "done"

\* C13 witness: the run wrote a collection that holds an artifact of an asset
\* under which another branch ended in failure
C13_Witness ==
    /\ run_pc = "written"
    /\ asset_tara_info_list # <<>>
    /\ \E m \in DOMAIN task :
           /\ task[m].pc \in {"failed", "gave_up"}
           /\ m[1] = asset_tara_info_list[1][1]

\* task m issues a request of stage p in this step
Issues(m, p) == task'[m].pc = p /\ (m \notin DOMAIN task \/ task[m].pc # p)

Parent(m) == SubSeq(m, 1, Len(m) - 1)

\* the list request of the parent of m was in flight and is answered in this
\* step with the list that m is an entry of
ParentAnswered(m, p, q) == task[Parent(m)].pc = p /\ task'[Parent(m)].pc = q

\* C15: within one branch the request of stage N is issued only after the
\* stage N-1 artifact of that branch is available, under every interleaving:
\* the damage scenario list after the attribute list of the asset, the impact
\* level after the damage scenario list, the threat scenario list after the
\* impact level, the attack path list after the threat scenario list, the
\* feasibility after the attack path list, the risk treatment after the
\* feasibility, and the CSO/CSR request after the risk treatment
C15_CausalOrder ==
    [][\A m \in DOMAIN task' :
           /\ Issues(m, "s1")  => task[m].pc = "pending"
           /\ Issues(m, "s2a") => task[Parent(m)].pc = "gather" /\ task[m].pc = "pending"
           /\ Issues(m, "s2b") => ParentAnswered(m, "s2a", "gather_impact")
           /\ Issues(m, "s3a") => task[m].pc = "impact_ok"
           /\ Issues(m, "s3b") => ParentAnswered(m, "s3a", "gather_paths")
           /\ Issues(m, "s3c") => ParentAnswered(m, "s3b", "gather")
           /\ Issues(m, "s4")  => /\ task[m].pc \in {"feasible", "sleep"}
                                   /\ task[Parent(m)].pc = "done"
           /\ Issues(m, "s5")  => task[m].pc = "s4" /\ task'[m].risk_treatment = "reduce"
      ]_vars

\* C15 witness: two branches are at different stages at once: the CSO/CSR
\* request of one is in flight while another waits for an earlier stage
C15_Witness ==
    \E m, n \in DOMAIN task :
        /\ task[m].pc = "s5"
        /\ task[n].pc \in {"s1", "s2a", "s2b", "s3a", "s3b", "s3c"}

\* the risk treatment request of m raised, or its scenario gave up and
\* returns no artifact
RiskTreatmentFailed(m) ==
    \/ task'[m].pc = "gave_up"
    \/ task'[m].pc = "sleep" /\ task'[m].error = "RuntimeError"

\* C16: the CSO/CSR stage issues its request if and only if the risk
\* treatment decision is "reduce"; for every other decision it issues no
\* request and returns the artifact with its upstream fields unchanged and
\* an empty requirement attached
C16_ConditionalStage ==
    [][\A m \in DOMAIN task \cap DOMAIN task' :
           (task[m].pc = "s4" /\ task'[m].pc # "s4" /\ ~RiskTreatmentFailed(m)) =>
               IF task'[m].risk_treatment = "reduce"
               THEN task'[m].pc = "s5"
               ELSE /\ task'[m].pc = "done"
                    /\ task'[m].allocated_to_device = "none"
                    /\ task'[m].result = task[m].result
      ]_vars

\* C19: if loading the input records fails, the run stops before any stage
\* request is issued and before any output is written, and the process ends
\* with a non-zero status; a run that loaded its records and met failures of
\* branches only writes its results and ends with status 0
C19_LoadFailureAborts ==
    [][/\ run_pc = "aborted" => (task = <<>> /\ asset_tara_info_list = <<>>)
       /\ (run_pc = "aborted" /\ exit_status' # -1) => exit_status' # 0
       /\ (run_pc = "written" /\ exit_status' # -1) => exit_status' = 0
      ]_vars

(* -------------------- claims checked under SpecFlowFair --------------- *)

\* the positions of the attribute tasks of a run
AttributeNodes == {<<a, i>> : a \in Assets, i \in 1..MaxList}

\* the asset tasks inside "async with asset_semaphore"
HoldingAsset == {a \in Assets : <<a>> \in DOMAIN task /\ task[<<a>>].pc \in {"s1", "gather"}}

WaitsForAttributePermit(node) == node \in DOMAIN task /\ task[node].pc = "pending"

\* an attribute task that waits for a permit of attribute_semaphore is
\* gathered by an asset task that holds its permit of asset_semaphore
PermitKept ==
    /\ run_pc = "gather" =>
           asset_semaphore = max_concurrent_assets - Cardinality(HoldingAsset)
    /\ \A node \in AttributeNodes :
           WaitsForAttributePermit(node) => node[1] \in HoldingAsset

\* C17: the two semaphores never deadlock: a task that holds a root-item
\* permit and waits for a branch-step permit keeps the root-item permit and
\* eventually obtains the branch-step permit, and the run terminates, every
\* service request being resolved in the end
C17_NoDeadlock ==
    /\ []PermitKept
    /\ \A node \in AttributeNodes :
           WaitsForAttributePermit(node) ~> ~WaitsForAttributePermit(node)
    /\ <>(exit_status # -1)

\* C17 witness: the permits of attribute_semaphore are used up and an
\* attribute task waits for one while its asset task and another asset task
\* hold their permits of asset_semaphore
C17_Witness ==
    /\ attribute_semaphore = 0
    /\ Cardinality(HoldingAsset) = 2
    /\ \E node \in AttributeNodes : WaitsForAttributePermit(node)

(* ---------------------- claims checked under SpecStage ---------------- *)

\* the keys of the format whose value is a non-empty list
SequenceKeys(fmt) == {key \in DOMAIN fmt : fmt[key].t = "list" /\ fmt[key].items # <<>>}

\* the entry has every member of the example entry, each a non-blank string
EntryMatches(item, example) ==
    /\ item.t = "dict"
    /\ \A k \in DOMAIN example.f :
           k \in DOMAIN item.f /\ item.f[k].t = "str" /\ Strip(item.f[k].s) # <<>>

\* C11: for every key of the format that maps to a non-empty list, whatever
\* its name, validation returns True only if the response has the key as a
\* non-empty list and every entry has every member of the format's example
\* entry with a non-blank string value
C11_SequenceTemplate ==
    validated = "True" =>
        \A key \in SequenceKeys(format_json) :
            /\ key \in DOMAIN response_json
            /\ response_json[key].t = "list"
            /\ response_json[key].items # <<>>
            /\ \A i \in 1..Len(response_json[key].items) :
                   EntryMatches(response_json[key].items[i], format_json[key].items[1])

\* the fields the stages before this one have set
UpstreamFields(stage) ==
    CASE stage = "possible_damage_scenario_list" ->
             {"asset_id", "assigned_security_attribute"}
      [] stage = "possible_threat_scenario_list" ->
             {"asset_id", "assigned_security_attribute", "damage_scenario_sn",
              "damage_scenario"}
      [] OTHER ->
             {"asset_id", "assigned_security_attribute", "damage_scenario_sn",
              "damage_scenario", "threat_id", "threat_scenario"}

\* the child holds the keyed entry key: value as the payload of the stage
CarriesPayload(stage, child, key, value) ==
    CASE stage = "possible_damage_scenario_list" ->
             child.damage_scenario_sn = key /\ child.damage_scenario = value
      [] stage = "possible_threat_scenario_list" ->
             child.threat_id = key /\ child.threat_scenario = value
      [] OTHER ->
             child.attack_path = value

\* the number of keyed entries in the first n list items of the response
RECURSIVE KeyedBefore(_, _)
KeyedBefore(items, n) ==
    IF n = 0 THEN 0 ELSE KeyedBefore(items, n - 1) + Len(items[n].keys)

\* C14: a fan-out stage handed a validated response with k keyed entries
\* returns exactly k children, in the order of the response, each with every
\* upstream field of the parent unchanged and with its own entry as payload
C14_FanOutFidelity ==
    (stage_pc = "returned" /\ StageKey(format_json) \in FanOutKeys) =>
        LET stage == StageKey(format_json)
            items == response_json[stage].items
        IN  /\ Len(children) = KeyedBefore(items, Len(items))
            /\ \A i \in 1..Len(items) : \A j \in 1..Len(items[i].keys) :
                   LET child == children[KeyedBefore(items, i - 1) + j]
                       key == items[i].keys[j]
                   IN  /\ \A x \in UpstreamFields(stage) : child[x] = artifact[x]
                       /\ CarriesPayload(stage, child, key, items[i].f[key])

\* C14 witness: a fan-out stage has returned three distinct children for a
\* response of two list items, the first of which holds "b" before "a"
C14_Witness ==
    /\ stage_pc = "returned"
    /\ StageKey(format_json) \in FanOutKeys
    /\ Len(response_json[StageKey(format_json)].items) = 2
    /\ response_json[StageKey(format_json)].items[1].keys = <<"b", "a">>
    /\ Len(children) = 3
    /\ children[1] # children[2]

(* ------------------ more claims checked under SpecFlow ---------------- *)

\* the asset tasks inside _process_asset_async: between entering and leaving
\* "async with asset_semaphore"
InsideProcessAsset ==
    {a \in Assets : <<a>> \in DOMAIN task /\ task[<<a>>].pc \in {"s1", "gather"}}

\* C21: in every reachable state the number of assets inside
\* _process_asset_async is at most max_concurrent_assets, whatever
\* max_concurrent_attributes is
C21_AssetPermitBound == Cardinality(InsideProcessAsset) <= max_concurrent_assets

\* C21 witness: every permit of asset_semaphore is taken, another asset task
\* waits for one, and there are more attribute permits than asset permits
C21_Witness ==
    /\ Cardinality(InsideProcessAsset) = max_concurrent_assets
    /\ \E a \in Assets : <<a>> \in DOMAIN task /\ task[<<a>>].pc = "pending"
    /\ max_concurrent_attributes > max_concurrent_assets

(* -------------------- claims checked under SpecValidate --------------- *)

ScenarioTasks == {m \in DOMAIN task : Len(m) = Depth}

\* the task of process_damage_scenario_async that gathers task m
Gatherer(m) == SubSeq(m, 1, 3)

\* C26: process_threat_scenario_async makes at most ScenarioMaxRetries + 1
\* attempts, sleeps 2^(r-1) seconds before extra attempt r, and after the
\* last failure it returns without raising: the task is not a failed one and
\* the gather of its siblings goes on
C26_BoundedScenarioRetry ==
    \A m \in ScenarioTasks :
        /\ task[m].retry_count <= ScenarioMaxRetries + 1
        /\ task[m].pc \in {"s4", "s5", "sleep", "done"} =>
               task[m].retry_count + 1 <= ScenarioMaxRetries + 1
        /\ task[m].pc = "sleep" =>
               task[m].retry_count >= 1 /\ task[m].delay = Pow2(task[m].retry_count - 1)
        /\ task[m].pc = "gave_up" <=> task[m].retry_count = ScenarioMaxRetries + 1
        /\ task[m].retry_count > 0 =>
               task[m].pc # "failed" /\ task[Gatherer(m)].pc \in {"gather", "done"}

\* C26 witness: a task has given up after its third failure, a sibling has
\* completed, and their gather has returned the sibling's artifact
C26_Witness ==
    \E m \in ScenarioTasks :
        /\ task[m].pc = "gave_up"
        /\ task[m].retry_count = ScenarioMaxRetries + 1
        /\ task[Gatherer(m)].pc = "done"
        /\ \E s \in ScenarioTasks :
               /\ s # m
               /\ Gatherer(s) = Gatherer(m)
               /\ task[s].pc = "done"
               /\ \E i \in 1..Len(task[Gatherer(m)].result) : task[Gatherer(m)].result[i] = s

\* C27: the orchestrator retries the CSO/CSR stage only: a task whose CSO/CSR
\* stage failed after its risk treatment stage had succeeded issues the
\* CSO/CSR request again and not the risk treatment request, and no risk
\* treatment request is issued by a retry
C27_RetryTerminalStageOnly ==
    [][\A m \in DOMAIN task \cap DOMAIN task' :
           /\ (task[m].pc = "sleep" /\ task[m].risk_treatment = "reduce"
                   /\ task'[m].pc # "sleep") => task'[m].pc = "s5"
           /\ (task[m].pc # "s4" /\ task'[m].pc = "s4") => task[m].retry_count = 0
      ]_vars

(* ------------- SpecLoop: the event loop and its one thread ------------- *)
(* asyncio.run gives the run one thread.  A coroutine holds it from one    *)
(* await to the next; at an await the loop takes it back and runs another *)
(* continuation that is ready.  A call that blocks (time.sleep, the post  *)
(* of a requests session) keeps the thread until it returns.  acq maps    *)
(* the asset tasks <<a>> and their branch tasks <<a, b>> to where they    *)
(* are; the clock and the amounts of the bucket are left out: a wait ends *)
(* at some time, a request is answered at some time.                      *)
LoopBranches(a) == {<<a, b>> : b \in 1..MaxFan}

LoopRoots == {<<a>> : a \in Assets}

LoopTasks == LoopRoots \cup UNION {LoopBranches(a) : a \in Assets}

\* a branch task awaits asyncio.sleep in _acquire_token_async ("token_wait"),
\* the answer to session.post ("transmit"), or asyncio.sleep(delay) between
\* two attempts ("backoff")
AwaitPcs == {"token_wait", "transmit", "backoff"}

\* the await of a branch task is over and its continuation is scheduled
ReadyPcs == {"start", "token_over", "answered", "backoff_over"}

\* summarize_single_asset_cybersecurity_requirements is inside time.sleep of
\* _acquire_token, inside session.post of _send_request, or inside
\* time.sleep(delay) of request_ai_response
BlockingPcs == {"sum_token_wait", "sum_transmit", "sum_backoff"}

InitLoop ==
    /\ acq = [t \in LoopTasks |->
                 IF Len(t) = 1 THEN [pc |-> "gather", retry_count |-> 0]
                 ELSE [pc |-> "start", retry_count |-> 0]]
    /\ bobs = <<>>
    /\ NoFlow
    /\ NoStage
    /\ now = 0
    /\ tokens = Capacity
    /\ last_refill_time = 0
    /\ max_retries = LoopRetries
    /\ timeout = 60
    /\ pc = "idle"
    /\ retry_count = 0
    /\ attempt = 0
    /\ current_timeout = 60
    /\ obs = NoObs

\* no call that blocks has the thread of the loop
LoopFree == \A r \in LoopRoots : acq[r].pc \notin BlockingPcs

\* the loop runs the continuation of branch task t up to its next await:
\* request_ai_response_async asks for a token and either sleeps for it or
\* goes on to session.post
RunToSend(t, wait) ==
    /\ Len(t) = 2
    /\ acq[t].pc \in {"start", "token_over", "backoff_over"}
    /\ LoopFree
    /\ acq' = [acq EXCEPT ![t].pc = IF wait THEN "token_wait" ELSE "transmit"]
    /\ UNCHANGED <<bobs, now, clientVars, bucketVars, flowVars, stageVars>>

\* the loop runs the continuation of branch task t after the answer or the
\* exception of its request: the task returns, raises, or sleeps before the
\* next attempt
RunAnswered(t, again) ==
    /\ Len(t) = 2
    /\ acq[t].pc = "answered"
    /\ LoopFree
    /\ again => acq[t].retry_count < LoopRetries
    /\ acq' = [acq EXCEPT ![t] = IF again
                                 THEN [pc |-> "backoff", retry_count |-> @.retry_count + 1]
                                 ELSE [@ EXCEPT !.pc = "done"]]
    /\ UNCHANGED <<bobs, now, clientVars, bucketVars, flowVars, stageVars>>

\* the timer of t's asyncio.sleep expires, or the answer to its request
\* arrives: the continuation of t is scheduled
AwaitOver(t) ==
    /\ Len(t) = 2
    /\ acq[t].pc \in AwaitPcs
    /\ acq' = [acq EXCEPT ![t].pc = CASE @ = "token_wait" -> "token_over"
                                      [] @ = "transmit" -> "answered"
                                      [] OTHER -> "backoff_over"]
    /\ UNCHANGED <<bobs, now, clientVars, bucketVars, flowVars, stageVars>>

\* _process_asset_async after "await asyncio.gather(*attribute_tasks)": the
\* branches of asset a have ended, and the task calls
\* summarize_single_asset_cybersecurity_requirements, which runs
\* request_ai_response up to time.sleep of _acquire_token or up to session.post
CallSummarize(a, wait) ==
    /\ acq[<<a>>].pc = "gather"
    /\ \A t \in LoopBranches(a) : acq[t].pc = "done"
    /\ LoopFree
    /\ acq' = [acq EXCEPT ![<<a>>].pc = IF wait THEN "sum_token_wait" ELSE "sum_transmit"]
    /\ UNCHANGED <<bobs, now, clientVars, bucketVars, flowVars, stageVars>>

\* time.sleep of the summarization returns, and the same call goes on to
\* its session.post or asks for the token once more
SummarizeSleepOver(a, wait) ==
    /\ acq[<<a>>].pc \in {"sum_token_wait", "sum_backoff"}
    /\ acq' = [acq EXCEPT ![<<a>>].pc = IF wait THEN "sum_token_wait" ELSE "sum_transmit"]
    /\ UNCHANGED <<bobs, now, clientVars, bucketVars, flowVars, stageVars>>

\* session.post of the summarization returns or raises: the call sleeps
\* before its next attempt, or it ends and _process_asset_async returns
SummarizeAnswered(a, again) ==
    /\ acq[<<a>>].pc = "sum_transmit"
    /\ again => acq[<<a>>].retry_count < LoopRetries
    /\ acq' = [acq EXCEPT ![<<a>>] = IF again
                                     THEN [pc |-> "sum_backoff", retry_count |-> @.retry_count + 1]
                                     ELSE [@ EXCEPT !.pc = "done"]]
    /\ UNCHANGED <<bobs, now, clientVars, bucketVars, flowVars, stageVars>>

NextLoop ==
    \/ \E t \in LoopTasks, wait \in BOOLEAN : RunToSend(t, wait)
    \/ \E t \in LoopTasks, again \in BOOLEAN : RunAnswered(t, again)
    \/ \E t \in LoopTasks : AwaitOver(t)
    \/ \E a \in Assets, wait \in BOOLEAN : CallSummarize(a, wait)
    \/ \E a \in Assets, wait \in BOOLEAN : SummarizeSleepOver(a, wait)
    \/ \E a \in Assets, again \in BOOLEAN : SummarizeAnswered(a, again)

SpecLoop == InitLoop /\ [][NextLoop]_vars

(* ----------------------- claims checked under SpecLoop ----------------- *)
\* the loop can run the continuation of branch task u
CanRun(u) == ENABLED (\/ \E wait \in BOOLEAN : RunToSend(u, wait)
                      \/ \E again \in BOOLEAN : RunAnswered(u, again))

\* C28: every wait for a token, every transmission and every sleep between
\* two attempts is a suspension point: while a task, the summarization
\* request of an asset included, is in one of them, every other branch task
\* whose continuation is ready can be run by the loop
C28_SuspensionPoints ==
    \A t \in LoopTasks :
        acq[t].pc \in AwaitPcs \cup BlockingPcs =>
            \A u \in LoopTasks \ {t} :
                (Len(u) = 2 /\ acq[u].pc \in ReadyPcs) => CanRun(u)

\* the tasks below the task of asset a
Under(a) == {m \in DOMAIN task : Len(m) > 1 /\ m[1] = a}

\* the attack paths of asset a whose branch completed
Survivors(a) == {m \in Under(a) : Len(m) = Depth /\ task[m].pc = "done"}

\* C29: for each asset the summarization request is issued exactly once,
\* only after every branch below the asset has ended, completed or failed,
\* and its message is built only from the completed artifacts of that asset
C29_SummarizeOnce ==
    \A a \in Assets :
        <<a>> \in DOMAIN task =>
            LET root == task[<<a>>]
            IN  /\ root.summarized <= 1
                /\ root.summarized = 1 =>
                       \A m \in Under(a) : task[m].pc \in {"done", "failed", "gave_up"}
                /\ \A i \in 1..Len(root.msg_list) : root.msg_list[i] \in Survivors(a)
                /\ (root.pc \in {"done", "failed"} /\ Survivors(a) # {}) =>
                       root.summarized = 1

\* C32: the completed artifacts of an asset are in the final collection
\* whatever the outcome of the summarization of that asset: a summarization
\* that fails removes none of them
C32_SummarizationKeepsArtifacts ==
    run_pc = "written" =>
        \A a \in Assets :
            \A m \in Completed(a) : \E i \in Written(a) : asset_tara_info_list[i] = m

\* C36: permits are conserved: when the run has ended, every permit of
\* asset_semaphore and of attribute_semaphore that was acquired has been
\* released, also by the tasks that raised, and both semaphores are back at
\* the counts they were created with (a run that could not load its assets
\* never creates them)
C36_PermitsConserved ==
    (run_pc \in {"written", "raised"} \/ AssetsGathered) =>
        /\ asset_semaphore = max_concurrent_assets
        /\ attribute_semaphore = max_concurrent_attributes

\* C36 witness: the run ended after an asset task and an attribute task of
\* another asset raised inside their semaphores
C36_Witness ==
    /\ run_pc = "written"
    /\ asset_semaphore = max_concurrent_assets
    /\ attribute_semaphore = max_concurrent_attributes
    /\ \E a \in Assets : task[<<a>>].pc = "failed" /\ task[<<a>>].n = 0
    /\ \E node \in DOMAIN task : Len(node) = 2 /\ task[node].pc = "failed"

\* the position p stands before the position q: in the order of the assets,
\* then in the order of the entries of each stage response
StandsBefore(p, q) ==
    \E k \in 1..Depth : p[k] < q[k] /\ \A h \in 1..(k - 1) : p[h] = q[h]

\* C37: the order of the artifacts in the final collection is the order of
\* the assets and of the entries in each stage response, whatever the order
\* in which the concurrent tasks ended
C37_DeterministicOrder ==
    run_pc = "written" =>
        \A i, j \in 1..Len(asset_tara_info_list) :
            i < j => StandsBefore(asset_tara_info_list[i], asset_tara_info_list[j])

\* C37 witness: the task of asset 2 ended while that of asset 1 was still
\* running, and the artifacts of asset 1 stand first in the collection
C37_Witness ==
    /\ run_pc = "written"
    /\ task[<<2>>].early
    /\ Len(asset_tara_info_list) >= 2
    /\ asset_tara_info_list[1][1] = 1
    /\ asset_tara_info_list[Len(asset_tara_info_list)][1] = 2

(* ------------- SpecHeap: the objects behind the artifacts -------------- *)
(* An AssetTaraInfo is an object that refers to the objects of its parts.  *)
(* heap is the sequence of the objects created so far, an object's address *)
(* its index; refs are its attributes that refer to objects (None for      *)
(* None), vals its attributes that hold strings.  task maps the positions  *)
(* of the tree to the coroutine there and to the address of the artifact   *)
(* it was handed.  Every request of this specification is answered.        *)
None == 0

\* the attributes of AssetTaraInfo.__init__, and asset_info of the attribute
RefOrder == <<"asset_info", "asset_cybersecurity_attribute",
              "damage_scenario_impact_level", "threat_scenario_attack_feasibility",
              "risk_treatment_decision", "cybersecurity_control_requirement">>

NewObject(cls, refs, vals) == [cls |-> cls, refs |-> refs, vals |-> vals]

\* AssetTaraInfo(asset_cybersecurity_attribute = the object at a)
NewAssetTaraInfo(a) ==
    NewObject("AssetTaraInfo",
              [asset_cybersecurity_attribute |-> a,
               damage_scenario_impact_level |-> None,
               threat_scenario_attack_feasibility |-> None,
               risk_treatment_decision |-> None,
               cybersecurity_control_requirement |-> None],
              <<>>)

\* copy.copy: a new object whose attributes refer to the objects of the old one
ShallowCopy(h, a) == [heap |-> Append(h, h[a]), addr |-> Len(h) + 1]

RECURSIVE Reach(_, _), ReachRefs(_, _, _)
\* the addresses of the object at a and of every object it refers to, in the
\* order in which copy.deepcopy comes to them
Reach(h, a) == <<a>> \o ReachRefs(h, a, Len(RefOrder))

\* the objects reached through the first k attributes of the object at a
ReachRefs(h, a, k) ==
    IF k = 0 THEN <<>>
    ELSE ReachRefs(h, a, k - 1) \o
         (IF RefOrder[k] \in DOMAIN h[a].refs /\ h[a].refs[RefOrder[k]] # None
          THEN Reach(h, h[a].refs[RefOrder[k]])
          ELSE <<>>)

\* copy.deepcopy of the object at a: a new object for it and for every
\* object it refers to, each attribute of a copy referring to the copy of
\* what it referred to; the result is the new heap and the address of the copy
DeepCopy(h, a) ==
    LET old == Reach(h, a)
        copied(x) == IF x = None THEN None
                     ELSE Len(h) + (CHOOSE i \in 1..Len(old) : old[i] = x)
    IN  [heap |-> h \o [i \in 1..Len(old) |->
                           [h[old[i]] EXCEPT !.refs = [name \in DOMAIN @ |-> copied(@[name])]]],
         addr |-> Len(h) + 1]

\* obj.name = a new object of class cls with the attributes vals
Attach(h, a, name, cls, vals) ==
    [Append(h, NewObject(cls, <<>>, vals)) EXCEPT ![a].refs[name] = Len(h) + 1]

\* obj.name.field = value, for every field of vals
SetVals(h, a, name, vals) ==
    [h EXCEPT ![h[a].refs[name]].vals =
                  [f \in DOMAIN @ \cup DOMAIN vals |->
                      IF f \in DOMAIN vals THEN vals[f] ELSE @[f]]]

HeapTask(p, a) == [pc |-> p, obj |-> a, n |-> 0]

\* read_assets_from_excel and the attribute stage have made the artifact of
\* one attribute of one asset, which the damage scenario stage is handed
InitHeap ==
    /\ heap = << NewObject("AssetInfo", <<>>, [asset_id |-> <<1>>]),
                 NewObject("AssetInfoCybersecurityAttribute", [asset_info |-> 1],
                           [assigned_security_attribute |-> <<1>>]),
                 NewAssetTaraInfo(2) >>
    /\ task = (<<1>> :> HeapTask("s2a", 3))
    /\ max_concurrent_assets = 0
    /\ max_concurrent_attributes = 0
    /\ asset_semaphore = 0
    /\ attribute_semaphore = 0
    /\ wide = 0
    /\ run_pc = "none"
    /\ asset_tara_info_list = <<>>
    /\ exit_status = -1
    /\ format_json = <<>>
    /\ response_json = <<>>
    /\ artifact = <<>>
    /\ validated = "none"
    /\ stage_pc = "request"
    /\ validations = 0
    /\ children = <<>>
    /\ acq = <<>>
    /\ bobs = <<>>
    /\ now = 0
    /\ tokens = Capacity
    /\ last_refill_time = 0
    /\ max_retries = 0
    /\ timeout = 60
    /\ pc = "idle"
    /\ retry_count = 0
    /\ attempt = 0
    /\ current_timeout = 60
    /\ obs = NoObs

\* the variables no step of this specification changes
heapOthers == <<max_concurrent_assets, max_concurrent_attributes, asset_semaphore,
                attribute_semaphore, run_pc, asset_tara_info_list, exit_status,
                format_json, response_json, artifact, validated, stage_pc,
                validations, children, now, clientVars, bucketVars, callerVars>>

\* the numbers of entries a list answered now may hold
HeapWidths == {w \in 1..HeapFan : w = 1 \/ wide < HeapWide}

RECURSIVE CopyChildren(_, _, _, _, _, _)
\* the loop of a fan-out stage over the first k entries of its list: each
\* child is copy.deepcopy of the parent at a, and its part name is set
CopyChildren(h, a, node, k, stage, p) ==
    IF k = 0 THEN [heap |-> h, tasks |-> <<>>]
    ELSE LET before == CopyChildren(h, a, node, k - 1, stage, p)
             copy == DeepCopy(before.heap, a)
             child == Append(node, k)
             set == CASE stage = "damage" ->
                             Attach(copy.heap, copy.addr, "damage_scenario_impact_level",
                                    "DamageScenarioImpactLevel",
                                    [damage_scenario |-> child, impact_level |-> <<>>])
                      [] stage = "threat" ->
                             Attach(copy.heap, copy.addr,
                                    "threat_scenario_attack_feasibility",
                                    "ThreatScenarioAttackFeasibility",
                                    [threat_scenario |-> child, attack_path |-> <<>>,
                                     attack_feasibility_rating |-> <<>>])
                      [] OTHER ->
                             SetVals(copy.heap, copy.addr,
                                     "threat_scenario_attack_feasibility",
                                     [attack_path |-> child])
         IN  [heap |-> set,
              tasks |-> (child :> HeapTask(p, copy.addr)) @@ before.tasks]

\* a fan-out stage of the task at node returns w children, which start at p
HeapFanOut(node, w, stage, p) ==
    LET made == CopyChildren(heap, task[node].obj, node, w, stage, p)
    IN  /\ heap' = made.heap
        /\ task' = [task EXCEPT ![node].pc = "returned", ![node].n = w] @@ made.tasks
        /\ wide' = wide + (IF w > 1 THEN 1 ELSE 0)

\* get_possible_damage_scenario_impact_level_list_async
DamageFanOut(node, w) ==
    /\ Len(node) = 1 /\ task[node].pc = "s2a"
    /\ HeapFanOut(node, w, "damage", "s2b")
    /\ UNCHANGED heapOthers

\* get_possible_damage_scenario_impact_level_async sets the impact levels of
\* the artifact it was handed
SetImpactLevels(node) ==
    /\ Len(node) = 2 /\ task[node].pc = "s2b"
    /\ heap' = SetVals(heap, task[node].obj, "damage_scenario_impact_level",
                       [impact_level |-> node])
    /\ task' = [task EXCEPT ![node].pc = "s3a"]
    /\ UNCHANGED <<wide, heapOthers>>

\* get_possible_threat_scenario_info_async
ThreatFanOut(node, w) ==
    /\ Len(node) = 2 /\ task[node].pc = "s3a"
    /\ HeapFanOut(node, w, "threat", "s3b")
    /\ UNCHANGED heapOthers

\* get_possible_threat_scenario_attack_path_async
PathFanOut(node, w) ==
    /\ Len(node) = 3 /\ task[node].pc = "s3b"
    /\ HeapFanOut(node, w, "path", "s3c")
    /\ UNCHANGED heapOthers

\* get_possible_threat_scenario_attack_path_feasibilities_async sets the
\* ratings of the artifact it was handed
SetFeasibility(node) ==
    /\ Len(node) = 4 /\ task[node].pc = "s3c"
    /\ heap' = SetVals(heap, task[node].obj, "threat_scenario_attack_feasibility",
                       [attack_feasibility_rating |-> node])
    /\ task' = [task EXCEPT ![node].pc = "s4"]
    /\ UNCHANGED <<wide, heapOthers>>

\* asset_threat_risk_treatment_assessment_async gives the artifact it was
\* handed a new RiskTreatmentDecision and sets its risk treatment
SetRiskTreatment(node) ==
    /\ Len(node) = 4 /\ task[node].pc = "s4"
    /\ heap' = Attach(heap, task[node].obj, "risk_treatment_decision",
                      "RiskTreatmentDecision", [risk_treatment |-> node])
    /\ task' = [task EXCEPT ![node].pc = "s5"]
    /\ UNCHANGED <<wide, heapOthers>>

\* asset_cso_csr_assessment_async gives the artifact it was handed a new
\* CybersecurityControlRequirement and sets its control and requirement
SetRequirement(node) ==
    /\ Len(node) = 4 /\ task[node].pc = "s5"
    /\ heap' = Attach(heap, task[node].obj, "cybersecurity_control_requirement",
                      "CybersecurityControlRequirement",
                      [cybersecurity_requirement |-> node])
    /\ task' = [task EXCEPT ![node].pc = "done"]
    /\ UNCHANGED <<wide, heapOthers>>

NextHeap ==
    \/ \E node \in DOMAIN task, w \in HeapWidths : DamageFanOut(node, w)
    \/ \E node \in DOMAIN task : SetImpactLevels(node)
    \/ \E node \in DOMAIN task, w \in HeapWidths : ThreatFanOut(node, w)
    \/ \E node \in DOMAIN task, w \in HeapWidths : PathFanOut(node, w)
    \/ \E node \in DOMAIN task : SetFeasibility(node)
    \/ \E node \in DOMAIN task : SetRiskTreatment(node)
    \/ \E node \in DOMAIN task : SetRequirement(node)

SpecHeap == InitHeap /\ [][NextHeap]_vars

(* ----------------------- claims checked under SpecHeap ----------------- *)
RECURSIVE DeepValue(_, _)
\* the artifact at address a as a value: its strings and those of its parts
DeepValue(h, a) ==
    [cls |-> h[a].cls, vals |-> h[a].vals,
     refs |-> [name \in DOMAIN h[a].refs |->
                  IF h[a].refs[name] = None THEN <<>>
                  ELSE DeepValue(h, h[a].refs[name])]]

\* C30: every child of a fan-out is an independent copy: a step of one task,
\* a fan-out or a later stage that sets the impact levels, the feasibility
\* ratings, the risk treatment or the requirement of its artifact, leaves
\* the artifact of every other task, sibling or parent, as it was, and a
\* fan-out leaves its own parent artifact as it was
C30_IndependentCopies ==
    [][\A m \in DOMAIN task :
           (task'[m].pc = task[m].pc \/ task'[m].pc = "returned") =>
               DeepValue(heap', task[m].obj) = DeepValue(heap, task[m].obj)
      ]_vars

\* two attack paths of one threat scenario, one with its requirement set and
\* one still before its feasibility request, each with its own attack path
C30_Witness ==
    \E m \in DOMAIN task : \E u \in DOMAIN task :
        /\ Len(m) = 4 /\ Len(u) = 4 /\ m # u
        /\ SubSeq(m, 1, 3) = SubSeq(u, 1, 3)
        /\ task[m].pc = "done" /\ task[u].pc = "s3c"
        /\ DeepValue(heap, task[u].obj).refs.threat_scenario_attack_feasibility.vals.attack_path = u
        /\ DeepValue(heap, task[m].obj).refs.threat_scenario_attack_feasibility.vals.attack_path = m

(* ------------- SpecObjs: the stages that set attributes ---------------- *)
(* The stages that are no fan-out read strings and numbers of the parsed   *)
(* response into the enums of tara_objs.  A Python string is a record      *)
(* [letters, case]: its letters in lower case, and how they are cased, so  *)
(* that str.upper and str.lower are conversions and two strings are equal  *)
(* when they have the same letters in the same case.  response_json maps   *)
(* the keys of the response to such strings (to numbers in the attribute   *)
(* stage), artifact holds the attributes of the AssetTaraInfo the stage is *)
(* handed, stage_pc names the stage until it returns or raises.            *)
Text(letters, case) == [letters |-> letters, case |-> case]

EmptyText == Text("", "lower")

\* str.upper() and str.lower()
Upper(s) == IF s = EmptyText THEN s ELSE [s EXCEPT !.case = "upper"]
Lower(s) == IF s = EmptyText THEN s ELSE [s EXCEPT !.case = "lower"]

\* "if s": the empty string is false
Truthy(s) == s # EmptyText

\* class SeverityLevel(Enum): the members in the order of the class, each
\* with its name as a string; the value of a member is its index less one
SeverityLevel ==
    << [name |-> "NEGLIGIBLE", text |-> Text("negligible", "upper")],
       [name |-> "MODERATE", text |-> Text("moderate", "upper")],
       [name |-> "MAJOR", text |-> Text("major", "upper")],
       [name |-> "SEVERE", text |-> Text("severe", "upper")] >>

\* SeverityLevel.get(severity): the member whose name is severity.upper(),
\* NEGLIGIBLE when there is none
SeverityLevelGet(severity) ==
    IF \E i \in DOMAIN SeverityLevel : SeverityLevel[i].text = Upper(severity)
    THEN SeverityLevel[CHOOSE i \in DOMAIN SeverityLevel :
                           SeverityLevel[i].text = Upper(severity)].name
    ELSE "NEGLIGIBLE"

\* member.value of a SeverityLevel
SeverityValue(name) == (CHOOSE i \in DOMAIN SeverityLevel : SeverityLevel[i].name = name) - 1

\* the enums with a from_string: the members in the order of the class,
\* each with its value as a string
RiskTreatmentOption ==
    << [name |-> "AVOID", text |-> Text("avoid", "capital")],
       [name |-> "REDUCE", text |-> Text("reduce", "capital")],
       [name |-> "SHARE", text |-> Text("share", "capital")],
       [name |-> "RETAIN", text |-> Text("retain", "capital")] >>

CybersecurityAttribute ==
    << [name |-> "AUTHENTICITY", text |-> Text("authenticity", "capital")],
       [name |-> "INTEGRITY", text |-> Text("integrity", "capital")],
       [name |-> "NON_REPUDIATION", text |-> Text("non-repudiation", "capital")],
       [name |-> "CONFIDENTIALITY", text |-> Text("confidentiality", "capital")],
       [name |-> "AVAILABILITY", text |-> Text("availability", "capital")],
       [name |-> "AUTHORIZATION", text |-> Text("authorization", "capital")],
       [name |-> "PRIVACY", text |-> Text("privacy", "capital")] >>

TimeConsumingLevel ==
    << [name |-> "NO_MORE_THAN_ONE_DAY", text |-> Text("<=1d", "lower")],
       [name |-> "NO_MORE_THAN_ONE_WEEK", text |-> Text("<=1w", "lower")],
       [name |-> "NO_MORE_THAN_ONE_MONTH", text |-> Text("<=1m", "lower")],
       [name |-> "NO_MORE_THAN_SIX_MONTHS", text |-> Text("<=6m", "lower")],
       [name |-> "MORE_THAN_SIX_MONTHS", text |-> Text(">6m", "lower")] >>

ExpertiseLevel ==
    << [name |-> "LAYMAN", text |-> Text("layman", "lower")],
       [name |-> "PROFICIENT", text |-> Text("proficient", "lower")],
       [name |-> "EXPERT", text |-> Text("expert", "lower")],
       [name |-> "MULTIPLE_EXPERT", text |-> Text("multiple expert", "lower")] >>

KnowledgeAboutTOELevel ==
    << [name |-> "PUBLIC", text |-> Text("public", "lower")],
       [name |-> "RESTRICTED", text |-> Text("restricted", "lower")],
       [name |-> "CONFIDENTIAL", text |-> Text("confidential", "lower")],
       [name |-> "STRICTLY_CONFIDENTIAL", text |-> Text("strictly confidential", "lower")] >>

WindowOfOpportunityLevel ==
    << [name |-> "UNLIMITED", text |-> Text("unlimited", "lower")],
       [name |-> "EASY", text |-> Text("easy", "lower")],
       [name |-> "MODERATE", text |-> Text("moderate", "lower")],
       [name |-> "DIFFICULT", text |-> Text("difficult", "lower")] >>

EquipmentLevel ==
    << [name |-> "STANDARD", text |-> Text("standard", "lower")],
       [name |-> "SPECIALIZED", text |-> Text("specialized", "lower")],
       [name |-> "BESPOKE", text |-> Text("bespoke", "lower")],
       [name |-> "MULTIPLE_BESPOKE", text |-> Text("multiple bespoke", "lower")] >>

\* from_string of RiskTreatmentOption and CybersecurityAttribute, which
\* compares in lower case: the name of the member, or None
FromStringLower(enum_class, value) ==
    IF \E i \in DOMAIN enum_class : Lower(enum_class[i].text) = Lower(value)
    THEN enum_class[CHOOSE i \in DOMAIN enum_class :
                        Lower(enum_class[i].text) = Lower(value)].name
    ELSE "None"

\* from_string of the enums of threat_scenario_attack_feasibility.py, which
\* compares the strings as they are
FromString(enum_class, value) ==
    IF \E i \in DOMAIN enum_class : enum_class[i].text = value
    THEN enum_class[CHOOSE i \in DOMAIN enum_class : enum_class[i].text = value].name
    ELSE "None"

\* _parse_enum on a string: the member from_string found, or ValueError
ParseEnum(parsed) == IF parsed = "None" THEN "ValueError" ELSE parsed

\* AssetTaraInfo after its constructors: DamageScenarioImpactLevel() with
\* every level NEGLIGIBLE, ThreatScenarioAttackFeasibility() and
\* RiskTreatmentDecision() with nothing set
NewArtifact ==
    [assigned_security_attribute |-> "None",
     safety |-> "NEGLIGIBLE", financial |-> "NEGLIGIBLE", operational |-> "NEGLIGIBLE",
     privacy |-> "NEGLIGIBLE", impact_level |-> "NEGLIGIBLE",
     time_consuming |-> "None", expertise |-> "None", knowledge_about_toe |-> "None",
     window_of_opportunity |-> "None", equipment |-> "None",
     difficulty |-> "None", attack_feasibility_rating |-> "None",
     risk_value |-> 0, risk_treatment |-> "None"]

ImpactKeys == {"safety", "financial", "operational", "privacy"}

\* max of the values of the members of names
MaxSeverity(names) ==
    CHOOSE n \in names : \A m \in names : SeverityValue(m) <= SeverityValue(n)

\* set_impact_levels_by_strings(attributes): every level whose string is
\* not empty is set to SeverityLevel.get of it, then impact_level is the
\* highest of the four
SetImpactLevelsByStrings(a, attributes) ==
    LET level(k) == IF Truthy(attributes[k]) THEN SeverityLevelGet(attributes[k])
                    ELSE a[k]
        set == [a EXCEPT !.safety = level("safety"), !.financial = level("financial"),
                         !.operational = level("operational"),
                         !.privacy = level("privacy")]
    IN  [set EXCEPT !.impact_level =
                        MaxSeverity({set.safety, set.financial, set.operational,
                                     set.privacy})]

\* set_time_consuming(value): the five spellings of the prompt, or
\* _parse_enum on the values of the enum
SetTimeConsuming(value) ==
    CASE value = Text("no_more_than_1d", "lower") -> "NO_MORE_THAN_ONE_DAY"
      [] value = Text("no_more_than_1w", "lower") -> "NO_MORE_THAN_ONE_WEEK"
      [] value = Text("no_more_than_1m", "lower") -> "NO_MORE_THAN_ONE_MONTH"
      [] value = Text("no_more_than_6m", "lower") -> "NO_MORE_THAN_SIX_MONTHS"
      [] value = Text("more_than_6m", "lower") -> "MORE_THAN_SIX_MONTHS"
      [] OTHER -> ParseEnum(FromString(TimeConsumingLevel, value))

FeasibilityKeys == <<"time_consuming", "expertise", "knowledge_about_toe",
                     "window_of_opportunity", "equipment">>

\* what the setter of dimension k makes of value
SetDimension(k, value) ==
    CASE k = "time_consuming" -> SetTimeConsuming(value)
      [] k = "expertise" -> ParseEnum(FromString(ExpertiseLevel, value))
      [] k = "knowledge_about_toe" -> ParseEnum(FromString(KnowledgeAboutTOELevel, value))
      [] k = "window_of_opportunity" ->
             ParseEnum(FromString(WindowOfOpportunityLevel, value))
      [] OTHER -> ParseEnum(FromString(EquipmentLevel, value))

\* the tables of calculate_difficulty
DifficultyValues ==
    [NO_MORE_THAN_ONE_DAY |-> 0, NO_MORE_THAN_ONE_WEEK |-> 1, NO_MORE_THAN_ONE_MONTH |-> 4,
     NO_MORE_THAN_SIX_MONTHS |-> 17, MORE_THAN_SIX_MONTHS |-> 19,
     LAYMAN |-> 0, PROFICIENT |-> 3, EXPERT |-> 6, MULTIPLE_EXPERT |-> 8,
     PUBLIC |-> 0, RESTRICTED |-> 3, CONFIDENTIAL |-> 7, STRICTLY_CONFIDENTIAL |-> 11,
     UNLIMITED |-> 0, EASY |-> 1, MODERATE |-> 4, DIFFICULT |-> 10,
     STANDARD |-> 0, SPECIALIZED |-> 4, BESPOKE |-> 7, MULTIPLE_BESPOKE |-> 9]

RECURSIVE DifficultyUpTo(_, _)
\* the sum of calculate_difficulty over the first n dimensions: a dimension
\* that is not set adds nothing
DifficultyUpTo(a, n) ==
    IF n = 0 THEN 0
    ELSE DifficultyUpTo(a, n - 1) +
         (IF a[FeasibilityKeys[n]] = "None" THEN 0
          ELSE DifficultyValues[a[FeasibilityKeys[n]]])

CalculateDifficulty(a) == DifficultyUpTo(a, Len(FeasibilityKeys))

\* update_feasibility_rating: calculate_attack_feasibility_rating stores the
\* difficulty and returns the rating of it
UpdateFeasibilityRating(a) ==
    LET difficulty == CalculateDifficulty(a)
    IN  [a EXCEPT !.difficulty = difficulty,
                  !.attack_feasibility_rating =
                      IF difficulty >= 25 THEN "VERY_LOW"
                      ELSE IF difficulty >= 20 THEN "LOW"
                      ELSE IF difficulty >= 14 THEN "MEDIUM"
                      ELSE "HIGH"]

RECURSIVE SetDimensions(_, _, _)
\* the setters of the feasibility stage called on the first n dimensions,
\* in the order of the code, up to the first that raises
SetDimensions(a, result, n) ==
    IF n = 0 THEN [artifact |-> a, raised |-> FALSE]
    ELSE LET before == SetDimensions(a, result, n - 1)
             k == FeasibilityKeys[n]
             member == SetDimension(k, result[k])
         IN  IF before.raised \/ member = "ValueError"
             THEN [artifact |-> before.artifact, raised |-> TRUE]
             ELSE [artifact |-> [before.artifact EXCEPT ![k] = member], raised |-> FALSE]

\* class AttackFeasibilityRating(Enum): the value of each member
AttackFeasibilityRating ==
    [VERY_LOW |-> "verylow", LOW |-> "low", MEDIUM |-> "medium", HIGH |-> "high"]

\* AssetTaraInfo.calculate_overall_risk: risk_matrix[rating][impact value],
\* and nothing when the rating is not set
CalculateOverallRisk(a) ==
    LET risk_matrix == [verylow |-> <<1, 1, 1, 2>>, low |-> <<1, 2, 2, 3>>,
                        medium |-> <<1, 2, 3, 4>>, high |-> <<1, 3, 4, 5>>]
    IN  IF a.attack_feasibility_rating # "None"
        THEN risk_matrix[AttackFeasibilityRating[a.attack_feasibility_rating]]
                        [SeverityValue(a.impact_level) + 1]
        ELSE a.risk_value

\* set_risk_treatment(risk_treatment): _parse_enum of a string that is not
\* empty, None for the empty string
ParseRiskTreatment(risk_treatment) ==
    IF Truthy(risk_treatment)
    THEN ParseEnum(FromStringLower(RiskTreatmentOption, risk_treatment))
    ELSE "None"

\* the strings a response is tried with: members in the spelling of the
\* format, in other cases, a string that names no member, the empty string
SeverityInputs ==
    {Text("negligible", "capital"), Text("moderate", "lower"), Text("major", "upper"),
     Text("severe", "capital"), Text("critical", "capital"), EmptyText}

TimeInputs ==
    {Text("no_more_than_1d", "lower"), Text("no_more_than_1w", "lower"),
     Text("no_more_than_1m", "lower"), Text("no_more_than_6m", "lower"),
     Text("more_than_6m", "lower"), Text("<=1w", "lower"), Text("never", "lower")}

DimensionInputs(k) ==
    CASE k = "time_consuming" -> TimeInputs
      [] k = "expertise" ->
             {Text("layman", "lower"), Text("expert", "lower"),
              Text("multiple expert", "lower"), Text("layman", "capital"),
              Text("novice", "lower")}
      [] k = "knowledge_about_toe" ->
             {Text("public", "lower"), Text("restricted", "lower"),
              Text("strictly confidential", "lower"), Text("secret", "lower")}
      [] k = "window_of_opportunity" ->
             {Text("unlimited", "lower"), Text("moderate", "lower"),
              Text("difficult", "lower"), Text("none", "lower")}
      [] OTHER ->
             {Text("standard", "lower"), Text("bespoke", "lower"),
              Text("multiple bespoke", "lower"), Text("multiple_bespoke", "lower")}

TreatmentInputs ==
    {Text("avoid", "capital"), Text("reduce", "lower"), Text("share", "upper"),
     Text("retain", "capital"), Text("accept", "capital"), EmptyText}

FeasibilityResponses ==
    [time_consuming : TimeInputs, expertise : DimensionInputs("expertise"),
     knowledge_about_toe : DimensionInputs("knowledge_about_toe"),
     window_of_opportunity : DimensionInputs("window_of_opportunity"),
     equipment : DimensionInputs("equipment")]

\* the artifacts the risk treatment stage is handed: the impact stage and
\* the feasibility stage have returned
RatedArtifacts ==
    {UpdateFeasibilityRating(SetDimensions(SetImpactLevelsByStrings(NewArtifact, i), f,
                                           Len(FeasibilityKeys)).artifact) :
        i \in {x \in [ImpactKeys -> SeverityInputs] :
                  \A k \in ImpactKeys \ {"safety"} : x[k] = EmptyText},
        f \in {x \in FeasibilityResponses :
                  /\ ~SetDimensions(NewArtifact, x, Len(FeasibilityKeys)).raised
                  /\ x.expertise = Text("layman", "lower")
                  /\ x.equipment = Text("standard", "lower")}}

\* the keys of the format_text each stage hands to analyze_asset_async
FormatKeys(stage) ==
    CASE stage = "s1" -> <<"Authenticity", "Integrity", "Non-repudiation", "Confidentiality",
                           "Availability", "Authorization", "Privacy">>
      [] stage = "s2b" -> <<"possible_damage_scenario_impact_level">>
      [] stage = "s3c" -> FeasibilityKeys
      [] stage = "s4" -> <<"risk_treatment", "item_change", "cybersecurity_goal",
                           "cybersecurity_claim">>

\* the stage the response on hand belongs to
IsStage(stage) == format_json = FormatKeys(stage)

\* a JSON number, boolean or string as json.loads returns it: the Python
\* type and the value (True is 1, 3.0 is the float 3)
Score(t, v) == [t |-> t, v |-> v]

\* isinstance(score, int): bool is a subclass of int
IsInstanceInt(score) == score.t \in {"int", "bool"}

\* the scores a response may give an attribute
ScoreInputs ==
    {Score("int", v) : v \in {-1, 0, 2, 3, 5, 6}}
        \cup {Score("bool", 1), Score("float", 3), Score("str", 4)}

\* the attribute names of a response: two known ones, one of them in lower
\* case, and one that names no security attribute
AttributeInputs ==
    {Text("authenticity", "capital"), Text("integrity", "lower"), Text("safety", "capital")}

\* the items() of a first-stage response, in the order of the response
AttributeResponses ==
    UNION {{x \in [1..n -> [attr : AttributeInputs, score : ScoreInputs]] :
               \A i, j \in 1..n : i # j => x[i].attr # x[j].attr} : n \in 1..MaxAttributes}

\* AssetInfoCybersecurityAttribute.assign_security_attribute
AssignSecurityAttribute(attribute) ==
    ParseEnum(FromStringLower(CybersecurityAttribute, attribute))

\* the loop of get_possible_asset_cybersecurity_attribute_objects_async over
\* the first n items of the response
RECURSIVE SelectAttributes(_, _, _)
SelectAttributes(a, items, n) ==
    IF n = 0 THEN [list |-> <<>>, raised |-> FALSE]
    ELSE LET sofar == SelectAttributes(a, items, n - 1)
             attr == items[n].attr
             score == items[n].score
         IN  IF sofar.raised THEN sofar
             ELSE IF ~IsInstanceInt(score) \/ score.v < 0 \/ score.v > 5
                  THEN [list |-> <<>>, raised |-> TRUE]
             ELSE IF score.v > 2
                  THEN LET parsed == AssignSecurityAttribute(attr)
                       IN  IF parsed = "ValueError"
                           THEN [list |-> <<>>, raised |-> TRUE]
                           ELSE [list |-> Append(sofar.list,
                                     [a EXCEPT !.assigned_security_attribute = parsed]),
                                 raised |-> FALSE]
             ELSE sofar

\* the variables the stages of this specification leave alone
objsOthers == <<format_json, validated, validations, heap, now, clientVars,
                bucketVars, callerVars, flowVars>>

\* one stage has its validated response and the artifact it was called with
InitObjs ==
    /\ \/ /\ stage_pc = "s1"
          /\ artifact = NewArtifact
          /\ response_json \in AttributeResponses
       \/ /\ stage_pc = "s2b"
          /\ artifact = NewArtifact
          /\ response_json \in [ImpactKeys -> SeverityInputs]
       \/ /\ stage_pc = "s3c"
          /\ artifact = NewArtifact
          /\ response_json \in FeasibilityResponses
       \/ /\ stage_pc = "s4"
          /\ artifact \in RatedArtifacts
          /\ response_json \in [{"risk_treatment"} -> TreatmentInputs]
    /\ format_json = FormatKeys(stage_pc)
    /\ validated = "none"
    /\ validations = 0
    /\ children = <<>>
    /\ heap = <<>>
    /\ NoFlow
    /\ acq = <<>>
    /\ bobs = <<>>
    /\ now = 0
    /\ tokens = Capacity
    /\ last_refill_time = 0
    /\ max_retries = 0
    /\ timeout = 60
    /\ pc = "idle"
    /\ retry_count = 0
    /\ attempt = 0
    /\ current_timeout = 60
    /\ obs = NoObs

\* get_possible_asset_cybersecurity_attribute_objects_async after its
\* request: the branches it returns, or none when it raises
AttributeStage ==
    /\ stage_pc = "s1"
    /\ LET selected == SelectAttributes(artifact, response_json, Len(response_json))
       IN  /\ children' = selected.list
           /\ stage_pc' = IF selected.raised THEN "raised" ELSE "returned"
    /\ UNCHANGED <<artifact, response_json, objsOthers>>

\* get_possible_damage_scenario_impact_level_async after its request
ImpactStage ==
    /\ stage_pc = "s2b"
    /\ artifact' = SetImpactLevelsByStrings(artifact, response_json)
    /\ stage_pc' = "returned"
    /\ UNCHANGED <<response_json, children, objsOthers>>

\* get_possible_threat_scenario_attack_path_feasibilities_async after its
\* request: the five setters, then update_feasibility_rating
FeasibilityStage ==
    /\ stage_pc = "s3c"
    /\ LET set == SetDimensions(artifact, response_json, Len(FeasibilityKeys))
       IN  IF set.raised
           THEN artifact' = set.artifact /\ stage_pc' = "raised"
           ELSE artifact' = UpdateFeasibilityRating(set.artifact) /\ stage_pc' = "returned"
    /\ UNCHANGED <<response_json, children, objsOthers>>

\* asset_threat_risk_treatment_assessment_async: calculate_overall_risk,
\* then set_risk_treatment on the answer of the request
TreatmentStage ==
    /\ stage_pc = "s4"
    /\ LET risk_treatment == ParseRiskTreatment(response_json.risk_treatment)
           risked == [artifact EXCEPT !.risk_value = CalculateOverallRisk(artifact)]
       IN  IF risk_treatment = "ValueError"
           THEN artifact' = risked /\ stage_pc' = "raised"
           ELSE /\ artifact' = [risked EXCEPT !.risk_treatment = risk_treatment]
                /\ stage_pc' = "returned"
    /\ UNCHANGED <<response_json, children, objsOthers>>

NextObjs ==
    \/ AttributeStage
    \/ ImpactStage
    \/ FeasibilityStage
    \/ TreatmentStage

SpecObjs == InitObjs /\ [][NextObjs]_vars

(* ----------------------- claims checked under SpecObjs ----------------- *)
\* the string names a member of the enum, whatever its case
NamesVariant(enum_class, value) ==
    \E i \in DOMAIN enum_class :
        \/ Lower(enum_class[i].text) = Lower(value)
        \/ Lower(Text(enum_class[i].name, "upper")) = Lower([value EXCEPT !.case = "upper"])

\* the spellings of the prompt that set_time_consuming takes for members
TimeSpellings ==
    {Text("no_more_than_1d", "lower"), Text("no_more_than_1w", "lower"),
     Text("no_more_than_1m", "lower"), Text("no_more_than_6m", "lower"),
     Text("more_than_6m", "lower")}

\* the enum a key of a response is parsed into
EnumOf(k) ==
    CASE k \in ImpactKeys -> SeverityLevel
      [] k = "time_consuming" -> TimeConsumingLevel
      [] k = "expertise" -> ExpertiseLevel
      [] k = "knowledge_about_toe" -> KnowledgeAboutTOELevel
      [] k = "window_of_opportunity" -> WindowOfOpportunityLevel
      [] k = "equipment" -> EquipmentLevel
      [] OTHER -> RiskTreatmentOption

\* C31: every parser from a string of the response into an enum fails
\* closed: a stage that returned has read no string that names no member of
\* its enum, so such a string is never mapped to a default member
C31_ParsersFailClosed ==
    stage_pc = "returned" =>
        IF IsStage("s1")
        THEN \A i \in DOMAIN response_json :
                 response_json[i].score = Score("int", 3) =>
                     NamesVariant(CybersecurityAttribute, response_json[i].attr)
        ELSE \A k \in DOMAIN response_json :
                 Truthy(response_json[k]) =>
                     \/ NamesVariant(EnumOf(k), response_json[k])
                     \/ k = "time_consuming" /\ response_json[k] \in TimeSpellings

\* list.index(x): the position of x in the list, counted from 0
ListIndex(list, x) == (CHOOSE i \in DOMAIN list : list[i] = x) - 1

\* the risk matrix of AssetThreatRiskTreatmentDecision
RiskMatrix == <<<<2, 3, 4, 5>>, <<1, 2, 3, 4>>, <<1, 2, 2, 3>>, <<1, 1, 1, 1>>>>

\* the same method with the two indexes in the order its comment gives
\* (rows by feasibility, columns by impact)
CalculateRiskValueByComment(a) ==
    LET impact_index == ListIndex(<<"SEVERE", "MAJOR", "MODERATE", "NEGLIGIBLE">>, a.impact_level)
        feasibility_index ==
            ListIndex(<<"verylow", "low", "medium", "high">>,
                      AttackFeasibilityRating[a.attack_feasibility_rating])
    IN  RiskMatrix[feasibility_index + 1][impact_index + 1]

\* AssetThreatRiskTreatmentDecision.calculate_risk_value on the same impact
\* level and rating: an unset rating makes it call
\* calculate_attack_feasibility_rating with one argument too many
CalculateRiskValue(a) ==
    IF a.attack_feasibility_rating = "None" THEN "TypeError"
    ELSE LET impact_values == <<"SEVERE", "MAJOR", "MODERATE", "NEGLIGIBLE">>
             feasibility_values == <<"verylow", "low", "medium", "high">>
             feasibility_value == AttackFeasibilityRating[a.attack_feasibility_rating]
             impact_index ==
                 IF \E i \in DOMAIN impact_values : impact_values[i] = a.impact_level
                 THEN ListIndex(impact_values, a.impact_level) ELSE 0
             feasibility_index ==
                 IF \E i \in DOMAIN feasibility_values : feasibility_values[i] = feasibility_value
                 THEN ListIndex(feasibility_values, feasibility_value) ELSE 0
         IN  RiskMatrix[impact_index + 1][feasibility_index + 1]

C39_AllCombinations ==
    \A i \in {"NEGLIGIBLE", "MODERATE", "MAJOR", "SEVERE"} :
        \A f \in DOMAIN AttackFeasibilityRating :
            \E a \in RatedArtifacts : a.impact_level = i /\ a.attack_feasibility_rating = f

\* C40: the difficulty of a ThreatScenarioAttackFeasibility, when it is set,
\* lies in 0..10 as the constructor demands: the setters of the dimensions
\* followed by update_feasibility_rating never leave it outside that range
\* (the feasibility stage that returned has set it)
C40_DifficultyInRange ==
    (stage_pc = "returned" /\ IsStage("s3c"))
        => artifact.difficulty \in 0..10

\* the score is an integer of 0..5, of 3..5
ValidScore(score) == score.t = "int" /\ score.v \in 0..5
SelectedScore(score) == score.t = "int" /\ score.v \in 3..5

\* the items of the response with a score of 3..5, in response order
SelectedItems == SelectSeq(response_json, LAMBDA item : SelectedScore(item.score))

\* C35: the first stage creates one branch for exactly the attributes whose
\* score is an integer of 3..5, in the order of the response; when a score is
\* no integer of 0..5 or a selected name is no security attribute the stage
\* fails and no branch is created
C35_FirstStageSelection ==
    (IsStage("s1") /\ stage_pc # "s1") =>
        IF \/ \E i \in DOMAIN response_json : ~ValidScore(response_json[i].score)
           \/ \E i \in DOMAIN SelectedItems :
                  ~NamesVariant(CybersecurityAttribute, SelectedItems[i].attr)
        THEN stage_pc = "raised" /\ children = <<>>
        ELSE /\ stage_pc = "returned"
             /\ Len(children) = Len(SelectedItems)
             /\ \A i \in DOMAIN children :
                    children[i].assigned_security_attribute
                        = AssignSecurityAttribute(SelectedItems[i].attr)
====
